---- MODULE Spec2Model ----
(***************************************************************************)
(* Verification model of the deck simulation toolkit of eternal_ccg:       *)
(* the draw simulator (decks/draw_simulator.py) and the goldfish simulator *)
(* (decks/goldfish_simulator.py), driven as the session views of           *)
(* decks/views.py drive them, and the battle simulator                     *)
(* (decks/battle_simulator.py).                                            *)
(*                                                                         *)
(* random.shuffle is a nondeterministic choice among all orderings of the  *)
(* list.  Copies of one card are equal in every field, so orderings are    *)
(* enumerated up to the exchange of equal copies.                          *)
(***************************************************************************)
EXTENDS Integers, Sequences, FiniteSets, TLC

\* ------------------------------------------------------------------ bounds
\* largest quantity of a power slot / of a non-power slot of a draw deck
MaxPowerQty == 5
MaxOtherQty == 3
\* largest quantity of the power slot of a goldfish deck
MaxSigils == 5
\* the goldfish simulator is followed up to this turn
MaxTurn == 2
\* largest quantity of the unit slot of a battle deck of one unit
MaxUnitQty == 9
\* largest quantity of the spell slot of a battle deck of spells
MaxFiller == 22
\* largest number of games asked of simulate_games
MaxGames == 2
\* largest quantity of a main slot of an analysed deck
MaxCopies == 2
\* largest population_size the probability functions are called with
MaxPopulation == 6
\* largest num_simulations run_opening_hand_simulation is called with
MaxTrials == 2

\* ------------------------------------------------------- small utilities
Min2(a, b) == IF a <= b THEN a ELSE b

RemoveAt(s, i) == SubSeq(s, 1, i - 1) \o SubSeq(s, i + 1, Len(s))

Range(s) == {s[i] : i \in DOMAIN s}

\* number of copies of value v in s
Copies(s, v) == Cardinality({i \in DOMAIN s : s[i] = v})

\* s and t hold the same copies (equal as multisets)
SameCopies(s, t) ==
    /\ Len(s) = Len(t)
    /\ \A v \in Range(s) \cup Range(t) : Copies(s, v) = Copies(t, v)

\* random.shuffle(s): every ordering of s (equal copies exchanged freely)
RECURSIVE Shuffle(_)
Shuffle(s) ==
    IF s = <<>> THEN {<<>>}
    ELSE UNION { {<<s[i]>> \o t : t \in Shuffle(RemoveAt(s, i))} :
                 i \in {k \in DOMAIN s : \A j \in 1..(k - 1) : s[j] # s[k]} }

\* ------------------------------------------------------------ card rows
\* Rows of the Card table (cards/models.py); influence strings are kept as
\* sequences of characters, the way the code iterates over them.
FireSigil ==
    [id |-> 1, name |-> "Fire Sigil", card_type |-> "Sigil", cost |-> 0,
     influence |-> <<"{", "F", "}">>, attack |-> 0, health |-> 0,
     image_url |-> "img1"]
Grenadin ==
    [id |-> 2, name |-> "Grenadin", card_type |-> "Unit", cost |-> 1,
     influence |-> <<"{", "F", "}">>, attack |-> 2, health |-> 1,
     image_url |-> "img2"]

Ogre ==
    [id |-> 3, name |-> "Ogre", card_type |-> "Unit", cost |-> 2,
     influence |-> <<"{", "F", "}", "{", "F", "}">>, attack |-> 3,
     health |-> 3, image_url |-> "img3"]
Torch ==
    [id |-> 4, name |-> "Torch", card_type |-> "Spell", cost |-> 1,
     influence |-> <<"{", "F", "}", "{", "F", "}">>, attack |-> 0,
     health |-> 0, image_url |-> "img4"]

\* a deck slot (DeckCard row)
Slot(c, q, m) == [card |-> c, quantity |-> q, is_market |-> m]

\* deck.cards.all(): slots in Meta.ordering (is_market, card__cost, card__name)
DrawDecks ==
    { <<Slot(FireSigil, p, FALSE), Slot(Grenadin, n, FALSE)>> \o mk :
        p \in 0..MaxPowerQty, n \in 0..MaxOtherQty,
        mk \in {<<>>, <<Slot(Grenadin, 1, TRUE)>>} }

\* ---------------------------------------------------------- draw simulator
VARIABLES
    tool,            \* which simulator the caller is driving
    deck_cards,      \* DrawSimulator.deck_cards
    current_hand,    \* DrawSimulator.current_hand
    remaining_deck,  \* DrawSimulator.remaining_deck
    mulligan_count,  \* DrawSimulator.mulligan_count
    max_mulligans,   \* DrawSimulator.max_mulligans
    draw_call        \* the last call made on the draw simulator and its result

drawVars == <<deck_cards, current_hand, remaining_deck, mulligan_count,
              max_mulligans, draw_call>>

VARIABLES
    original_deck,   \* GoldfishSimulator.original_deck
    state,           \* GoldfishSimulator.state, a GoldfishState
    gold_call        \* the last call made on the goldfish simulator and its result

goldVars == <<original_deck, state, gold_call>>

VARIABLES
    battle_sim,      \* the BattleSimulator: deck1_cards, deck2_cards and names
    game,            \* the locals of the simulate_game call in progress
    tally,           \* the locals of the simulate_games call in progress
    battle_call      \* the last step of the battle simulator and its outcome

battleVars == <<battle_sim, game, tally, battle_call>>

VARIABLES
    subject,         \* what an analyzer or a probability function is handed
    report           \* the last call made on it and what it returned

anVars == <<subject, report>>

vars == <<tool, drawVars, goldVars, battleVars, anVars>>

\* no analyzer is in use
NoAnalysis ==
    /\ subject = <<>>
    /\ report = [op |-> "none"]

\* the battle simulator is not in use
NoBattle ==
    /\ battle_sim = <<>>
    /\ game = <<>>
    /\ tally = <<>>
    /\ battle_call = [op |-> "none"]

\* card.card_type in ['Power', 'Sigil']
IsPowerType(t) == t \in {"Power", "Sigil"}

\* SimCard(...) as built by from_deck
SimCard(card) ==
    [id |-> card.id, name |-> card.name, card_type |-> card.card_type,
     cost |-> card.cost, influence |-> card.influence,
     image_url |-> card.image_url, is_power |-> IsPowerType(card.card_type)]

Repeat(x, n) == [i \in 1..n |-> x]

\* the loop of DrawSimulator.from_deck over the slots of the deck
RECURSIVE DrawFromDeckCards(_)
DrawFromDeckCards(slots) ==
    IF slots = <<>> THEN <<>>
    ELSE LET deck_card == Head(slots) IN
         (IF deck_card.is_market THEN <<>>
          ELSE Repeat(SimCard(deck_card.card), deck_card.quantity))
         \o DrawFromDeckCards(Tail(slots))

\* len([c for c in cards if c.is_power]), the power_count of get_hand_stats
PowerCount(cards) == Cardinality({i \in DOMAIN cards : cards[i].is_power})

\* an Optional result: None, or the value returned
None == <<>>
Some(x) == <<x>>

\* cls(): the dataclass defaults
DrawDefaults ==
    [deck_cards |-> <<>>, current_hand |-> <<>>, remaining_deck |-> <<>>,
     mulligan_count |-> 0, max_mulligans |-> 2]

\* the simulator object as a record of its fields
DrawSim ==
    [deck_cards |-> deck_cards, current_hand |-> current_hand,
     remaining_deck |-> remaining_deck, mulligan_count |-> mulligan_count,
     max_mulligans |-> max_mulligans]

\* shuffle_and_draw on a simulator sim, the shuffle giving the order shuffled
ShuffleAndDraw(sim, shuffled) ==
    [sim EXCEPT !.mulligan_count = 0,
                !.current_hand = SubSeq(shuffled, 1, Min2(7, Len(shuffled))),
                !.remaining_deck = SubSeq(shuffled, 8, Len(shuffled))]

SetDrawSim(sim) ==
    /\ deck_cards' = sim.deck_cards
    /\ current_hand' = sim.current_hand
    /\ remaining_deck' = sim.remaining_deck
    /\ mulligan_count' = sim.mulligan_count
    /\ max_mulligans' = sim.max_mulligans

InitDraw ==
    /\ tool = "draw"
    /\ \E deck \in DrawDecks :
         \E shuffled \in Shuffle(DrawFromDeckCards(deck)) :
           LET sim == ShuffleAndDraw(
                        [DrawDefaults EXCEPT !.deck_cards = DrawFromDeckCards(deck)],
                        shuffled)
           IN /\ deck_cards = sim.deck_cards
              /\ current_hand = sim.current_hand
              /\ remaining_deck = sim.remaining_deck
              /\ mulligan_count = sim.mulligan_count
              /\ max_mulligans = sim.max_mulligans
    /\ draw_call = [op |-> "from_deck"]
    /\ original_deck = <<>>
    /\ state = <<>>
    /\ gold_call = [op |-> "none"]
    /\ NoBattle
    /\ NoAnalysis

\* the objects of a list are named by their positions in deck_cards
Pick(cards, positions) ==
    LET F[k \in 0..Len(cards)] ==
          IF k = 0 THEN <<>>
          ELSE IF k \in positions THEN Append(F[k - 1], cards[k]) ELSE F[k - 1]
    IN F[Len(cards)]

\* pool[:k] of a shuffled pool of objects, as the set of objects taken; copies
\* that are equal in value are exchangeable, so the lowest positions of each
\* value stand for any choice among them
FirstOf(cards, pool, k) ==
    { H \in SUBSET pool :
        /\ Cardinality(H) = Min2(k, Cardinality(pool))
        /\ \A i \in H : \A j \in pool :
             (j < i /\ cards[j] = cards[i]) => j \in H }

\* a filter by value instead of by identity: every copy equal to a card of the
\* hand is dropped
NotInHandByValue(cards, hand_set) ==
    {i \in DOMAIN cards : \A h \in hand_set : cards[h] # cards[i]}

\* [c for c in full_deck if id(c) not in hand_set]
NotInHandById(cards, hand_set) == DOMAIN cards \ hand_set

\* a limit test that lets one more mulligan through
MulliganLimitOffByOne(count, limit) == count > limit

\* self.mulligan_count >= self.max_mulligans
MulliganLimitReached(count, limit) == count >= limit

\* the body of DrawSimulator.mulligan
MulliganCall ==
    /\ IF MulliganLimitReached(mulligan_count, max_mulligans)
       THEN /\ draw_call' = [op |-> "mulligan", outcome |-> "return",
                             hand |-> current_hand, can_mulligan |-> FALSE]
            /\ UNCHANGED <<deck_cards, current_hand, remaining_deck,
                           mulligan_count, max_mulligans>>
       ELSE
         LET count == mulligan_count + 1
             hand_size == IF count = 1 THEN 7 ELSE 6
             power_cards == {i \in DOMAIN deck_cards : deck_cards[i].is_power}
             non_power_cards == {i \in DOMAIN deck_cards : ~deck_cards[i].is_power}
             hi == Min2(4, Min2(Cardinality(power_cards), hand_size - 1))
         IN
         /\ mulligan_count' = count
         /\ UNCHANGED <<deck_cards, max_mulligans>>
         /\ IF hi < 2
            THEN \* random.randint(2, hi) raises ValueError on an empty range
                 /\ draw_call' = [op |-> "mulligan", outcome |-> "ValueError"]
                 /\ UNCHANGED <<current_hand, remaining_deck>>
            ELSE
              \E drawn \in 2..hi :
                LET power_count0 == Min2(drawn, Cardinality(power_cards))
                    non_power_count ==
                        Min2(hand_size - drawn, Cardinality(non_power_cards))
                    additional_power ==
                        Min2(hand_size - power_count0 - non_power_count,
                             Cardinality(power_cards) - power_count0)
                    power_count ==
                        IF power_count0 + non_power_count < hand_size
                        THEN power_count0 + additional_power
                        ELSE power_count0
                IN
                \E hand_power \in FirstOf(deck_cards, power_cards, power_count),
                   hand_non_power \in
                       FirstOf(deck_cards, non_power_cards, non_power_count) :
                  LET hand_set == hand_power \cup hand_non_power IN
                  \E hand \in Shuffle(Pick(deck_cards, hand_set)),
                     rest \in Shuffle(Pick(deck_cards,
                                  NotInHandById(deck_cards, hand_set))) :
                    /\ current_hand' = hand
                    /\ remaining_deck' = rest
                    /\ draw_call' = [op |-> "mulligan", outcome |-> "return",
                                     hand |-> hand,
                                     can_mulligan |-> count < max_mulligans]

\* DrawSimulator.mulligan, called by the view
Mulligan ==
    /\ tool = "draw"
    /\ MulliganCall

\* DrawSimulator.draw_card
DrawCard ==
    /\ tool = "draw"
    /\ IF remaining_deck = <<>>
       THEN /\ draw_call' = [op |-> "draw_card", outcome |-> "return",
                             card |-> None]
            /\ UNCHANGED <<current_hand, remaining_deck>>
       ELSE /\ current_hand' = Append(current_hand, Head(remaining_deck))
            /\ remaining_deck' = Tail(remaining_deck)
            /\ draw_call' = [op |-> "draw_card", outcome |-> "return",
                             card |-> Some(Head(remaining_deck))]
    /\ UNCHANGED <<deck_cards, mulligan_count, max_mulligans>>

\* the card dictionary written by DrawSimulator.to_dict
SimCardToDict(c) ==
    [id |-> c.id, name |-> c.name, card_type |-> c.card_type,
     cost |-> c.cost, influence |-> c.influence, image_url |-> c.image_url,
     is_power |-> c.is_power]

\* DrawSimulator.to_dict
DrawToDict(sim) ==
    [deck_cards |-> [i \in DOMAIN sim.deck_cards |->
                        SimCardToDict(sim.deck_cards[i])],
     current_hand |-> [i \in DOMAIN sim.current_hand |->
                        SimCardToDict(sim.current_hand[i])],
     remaining_deck |-> [i \in DOMAIN sim.remaining_deck |->
                        SimCardToDict(sim.remaining_deck[i])],
     mulligan_count |-> sim.mulligan_count]

\* make_card of DrawSimulator.from_dict
MakeCard(d) ==
    [id |-> d.id, name |-> d.name, card_type |-> d.card_type,
     cost |-> d.cost, influence |-> d.influence, image_url |-> d.image_url,
     is_power |-> d.is_power]

\* DrawSimulator.from_dict
DrawFromDict(data) ==
    [DrawDefaults EXCEPT
       !.deck_cards = [i \in DOMAIN data.deck_cards |->
                          MakeCard(data.deck_cards[i])],
       !.current_hand = [i \in DOMAIN data.current_hand |->
                          MakeCard(data.current_hand[i])],
       !.remaining_deck = [i \in DOMAIN data.remaining_deck |->
                          MakeCard(data.remaining_deck[i])],
       !.mulligan_count = data.mulligan_count]

\* deck_draw_simulator between two requests: the state is written to the
\* session with to_dict and read back with from_dict
DrawSession ==
    /\ tool = "draw"
    /\ SetDrawSim(DrawFromDict(DrawToDict(DrawSim)))
    /\ UNCHANGED draw_call

NextDraw ==
    \/ Mulligan /\ UNCHANGED <<tool, goldVars, battleVars, anVars>>
    \/ DrawCard /\ UNCHANGED <<tool, goldVars, battleVars, anVars>>
    \/ DrawSession /\ UNCHANGED <<tool, goldVars, battleVars, anVars>>

\* ------------------------------------------------------ goldfish simulator
\* GoldfishSimulator.FACTIONS (the keys)
FACTIONS == {"F", "T", "J", "P", "S"}

\* x or '' and x or 0
OrEmpty(x) == IF x = <<>> THEN <<>> ELSE x
OrZero(x) == IF x = 0 THEN 0 ELSE x

\* GoldfishCard(...) as built by from_deck
GoldfishCard(card) ==
    [id |-> card.id, name |-> card.name, card_type |-> card.card_type,
     cost |-> card.cost, influence |-> OrEmpty(card.influence),
     attack |-> OrZero(card.attack), health |-> OrZero(card.health),
     image_url |-> card.image_url,
     is_power |-> IsPowerType(card.card_type)]

\* the loop of GoldfishSimulator.from_deck over the slots of the deck
RECURSIVE GoldFromDeckCards(_)
GoldFromDeckCards(slots) ==
    IF slots = <<>> THEN <<>>
    ELSE LET deck_card == Head(slots) IN
         (IF deck_card.is_market THEN <<>>
          ELSE Repeat(GoldfishCard(deck_card.card), deck_card.quantity))
         \o GoldFromDeckCards(Tail(slots))

\* the non-power slots of the goldfish decks, in Meta.ordering
GoldPackages ==
    { <<>>,
      <<Slot(Grenadin, 2, FALSE)>>,
      <<Slot(Grenadin, 1, FALSE), Slot(Ogre, 1, FALSE)>>,
      <<Slot(Grenadin, 2, FALSE), Slot(Ogre, 1, FALSE)>>,
      <<Slot(Grenadin, 1, FALSE), Slot(Torch, 1, FALSE),
        Slot(Ogre, 1, FALSE)>> }

GoldDecks ==
    { <<Slot(FireSigil, p, FALSE)>> \o pk \o mk :
        p \in 0..MaxSigils, pk \in GoldPackages,
        mk \in {<<>>, <<Slot(Ogre, 1, TRUE)>>} }

\* the cards a caller may name in play_card
GoldCards == {GoldfishCard(c) : c \in {FireSigil, Grenadin, Ogre, Torch}}

\* GoldfishState(): the dataclass defaults
GoldfishState ==
    [hand |-> <<>>, deck |-> <<>>, battlefield |-> <<>>, void |-> <<>>,
     power_available |-> 0, power_max |-> 0, influence |-> <<>>,
     turn |-> 0, power_played_this_turn |-> FALSE,
     total_damage_potential |-> 0, cards_played_total |-> 0,
     spells_cast |-> 0]

\* dict.get(key, 0)
Get(dict, key) == IF key \in DOMAIN dict THEN dict[key] ELSE 0

\* dict[key] = value
Put(dict, key, value) ==
    [k \in DOMAIN dict \cup {key} |-> IF k = key THEN value ELSE dict[k]]

\* GoldfishSimulator._setup_game, the shuffle giving the order shuffled
SetupGame(shuffled) ==
    [GoldfishState EXCEPT
       !.influence = [f \in FACTIONS |-> 0],
       !.hand = SubSeq(shuffled, 1, Min2(7, Len(shuffled))),
       !.deck = SubSeq(shuffled, 8, Len(shuffled))]

\* a draw step that is not skipped on turn 1
DrawsFromTurnOne(turn, deck) == turn >= 1 /\ deck # <<>>

\* self.state.turn > 1 and self.state.deck
DrawsThisTurn(turn, deck) == turn > 1 /\ deck # <<>>

\* GoldfishSimulator.start_turn: the new state and the returned dict
StartTurn(st) ==
    LET turn == st.turn + 1
        draws == DrawsThisTurn(turn, st.deck)
        hand == IF draws THEN Append(st.hand, Head(st.deck)) ELSE st.hand
    IN [state |-> [st EXCEPT !.turn = turn,
                             !.power_played_this_turn = FALSE,
                             !.power_available = st.power_max,
                             !.deck = IF draws THEN Tail(st.deck) ELSE st.deck,
                             !.hand = hand],
        result |-> [turn |-> turn,
                    drawn_card |-> IF draws THEN Some(Head(st.deck)) ELSE None,
                    hand_size |-> Len(hand),
                    power_available |-> st.power_max]]

\* GoldfishSimulator._parse_influence
ParseInfluence(influence_str) ==
    LET F[k \in 0..Len(influence_str)] ==
          IF k = 0 THEN <<>>
          ELSE IF influence_str[k] \in FACTIONS
               THEN Put(F[k - 1], influence_str[k],
                        Get(F[k - 1], influence_str[k]) + 1)
               ELSE F[k - 1]
    IN F[Len(influence_str)]

\* a playability test that leaves the cost out
CanPlayWithoutCost(st, card) ==
    IF card.is_power THEN ~st.power_played_this_turn
    ELSE LET required == ParseInfluence(card.influence) IN
         \A faction \in DOMAIN required :
            ~(Get(st.influence, faction) < required[faction])

\* a playability test that leaves the influence requirement out
CanPlayWithoutInfluence(st, card) ==
    IF card.is_power THEN ~st.power_played_this_turn
    ELSE ~(card.cost > st.power_available)

\* GoldfishSimulator._can_play
CanPlay(st, card) ==
    IF card.is_power THEN ~st.power_played_this_turn
    ELSE IF card.cost > st.power_available THEN FALSE
    ELSE LET required == ParseInfluence(card.influence) IN
         \A faction \in DOMAIN required :
            ~(Get(st.influence, faction) < required[faction])

\* GoldfishSimulator.get_playable_cards
GetPlayableCards(st) == SelectSeq(st.hand, LAMBDA c : CanPlay(st, c))

\* a removal that drops every entry equal to x
ListRemoveAll(s, x) == SelectSeq(s, LAMBDA y : y # x)

\* list.remove(x): the first entry equal to x is removed
ListRemove(s, x) ==
    RemoveAt(s, CHOOSE i \in DOMAIN s :
                  s[i] = x /\ \A j \in 1..(i - 1) : s[j] # x)

\* the influence loop of play_card for a power card
AddInfluence(influence, influence_str) ==
    LET F[k \in 0..Len(influence_str)] ==
          IF k = 0 THEN influence
          ELSE IF influence_str[k] \in FACTIONS
               THEN Put(F[k - 1], influence_str[k],
                        Get(F[k - 1], influence_str[k]) + 1)
               ELSE F[k - 1]
    IN F[Len(influence_str)]

\* a rejection that comes after the play was counted
RejectedAfterCount(st, error) ==
    [state |-> [st EXCEPT !.cards_played_total = st.cards_played_total + 1],
     result |-> [success |-> FALSE, error |-> error]]

\* return {'success': False, 'error': ...}, before any assignment
Rejected(st, error) ==
    [state |-> st, result |-> [success |-> FALSE, error |-> error]]

\* GoldfishSimulator.play_card: the new state and the returned dict
PlayCard(st, card) ==
    IF card \notin Range(st.hand)
    THEN Rejected(st, "Card not in hand")
    ELSE IF ~CanPlay(st, card)
    THEN Rejected(st, "Cannot play this card")
    ELSE
      LET s1 == [st EXCEPT !.hand = ListRemove(st.hand, card),
                           !.cards_played_total = st.cards_played_total + 1]
      IN
      IF card.is_power
      THEN LET s2 == [s1 EXCEPT
                        !.power_played_this_turn = TRUE,
                        !.power_max = s1.power_max + 1,
                        !.power_available = s1.power_available + 1,
                        !.influence = AddInfluence(s1.influence, card.influence),
                        !.void = Append(s1.void, card)]
           IN [state |-> s2,
               result |-> [success |-> TRUE, action |-> "played_power",
                           card |-> card, power_max |-> s2.power_max,
                           influence |-> s2.influence]]
      ELSE
        LET s2 == [s1 EXCEPT !.power_available = s1.power_available - card.cost]
        IN
        IF card.card_type = "Unit"
        THEN LET s3 == [s2 EXCEPT
                          !.battlefield = Append(s2.battlefield, card),
                          !.total_damage_potential =
                              s2.total_damage_potential + card.attack]
             IN [state |-> s3,
                 result |-> [success |-> TRUE, action |-> "played_unit",
                             card |-> card, attack |-> card.attack,
                             total_damage |-> s3.total_damage_potential]]
        ELSE LET s3 == [s2 EXCEPT !.void = Append(s2.void, card),
                                  !.spells_cast = s2.spells_cast + 1]
             IN [state |-> s3,
                 result |-> [success |-> TRUE, action |-> "cast_spell",
                             card |-> card]]

\* a choice that takes the first entry, whatever its cost
FirstInHandOrder(cards) == cards[1]

\* sort(key=cost, reverse=True)[0]: the first entry of the highest cost (the
\* sort is stable)
HighestCostFirst(cards) ==
    cards[CHOOSE i \in DOMAIN cards :
            /\ \A j \in DOMAIN cards : cards[j].cost <= cards[i].cost
            /\ \A j \in 1..(i - 1) : cards[j].cost < cards[i].cost]

\* the spell loop of auto_play_turn
RECURSIVE AutoPlaySpells(_, _)
AutoPlaySpells(st, actions) ==
    LET playable_spells ==
          SelectSeq(GetPlayableCards(st),
                    LAMBDA c : c.card_type \notin {"Unit", "Power", "Sigil"})
    IN IF playable_spells = <<>> THEN [state |-> st, actions |-> actions]
       ELSE LET played == PlayCard(st, HighestCostFirst(playable_spells)) IN
            IF played.result.success
            THEN AutoPlaySpells(played.state, Append(actions, played.result))
            ELSE [state |-> played.state, actions |-> actions]

\* the unit loop of auto_play_turn
RECURSIVE AutoPlayUnits(_, _)
AutoPlayUnits(st, actions) ==
    LET playable_units ==
          SelectSeq(GetPlayableCards(st), LAMBDA c : c.card_type = "Unit")
    IN IF playable_units = <<>> THEN [state |-> st, actions |-> actions]
       ELSE LET played == PlayCard(st, HighestCostFirst(playable_units)) IN
            IF played.result.success
            THEN AutoPlayUnits(played.state, Append(actions, played.result))
            ELSE [state |-> played.state, actions |-> actions]

\* GoldfishSimulator.auto_play_turn: the new state and the returned list
AutoPlayTurn(st) ==
    LET power_cards == SelectSeq(st.hand, LAMBDA c : c.is_power)
        first ==
          IF power_cards # <<>> /\ ~st.power_played_this_turn
          THEN LET played == PlayCard(st, power_cards[1]) IN
               [state |-> played.state,
                actions |-> IF played.result.success
                            THEN <<played.result>> ELSE <<>>]
          ELSE [state |-> st, actions |-> <<>>]
        units == AutoPlayUnits(first.state, first.actions)
    IN AutoPlaySpells(units.state, units.actions)

\* card_to_dict of GoldfishSimulator.to_dict
CardToDict(c) ==
    [id |-> c.id, name |-> c.name, card_type |-> c.card_type,
     cost |-> c.cost, influence |-> c.influence, attack |-> c.attack,
     health |-> c.health, image_url |-> c.image_url, is_power |-> c.is_power]

\* dict_to_card of GoldfishSimulator.from_dict
DictToCard(d) ==
    [id |-> d.id, name |-> d.name, card_type |-> d.card_type,
     cost |-> d.cost, influence |-> d.influence, attack |-> d.attack,
     health |-> d.health, image_url |-> d.image_url, is_power |-> d.is_power]

\* [card_to_dict(c) for c in cards]
CardsToDicts(cards) == [i \in DOMAIN cards |-> CardToDict(cards[i])]

\* [dict_to_card(d) for d in dicts]
DictsToCards(dicts) == [i \in DOMAIN dicts |-> DictToCard(dicts[i])]

\* the simulator object as a record of its fields
GoldSim == [original_deck |-> original_deck, state |-> state]

\* GoldfishSimulator.to_dict
GoldToDict(sim) ==
    [original_deck |-> CardsToDicts(sim.original_deck),
     hand |-> CardsToDicts(sim.state.hand),
     deck |-> CardsToDicts(sim.state.deck),
     battlefield |-> CardsToDicts(sim.state.battlefield),
     void |-> CardsToDicts(sim.state.void),
     power_available |-> sim.state.power_available,
     power_max |-> sim.state.power_max,
     influence |-> sim.state.influence,
     turn |-> sim.state.turn,
     power_played_this_turn |-> sim.state.power_played_this_turn,
     total_damage_potential |-> sim.state.total_damage_potential,
     cards_played_total |-> sim.state.cards_played_total,
     spells_cast |-> sim.state.spells_cast]

\* a from_dict that does not assign power_played_this_turn
GoldFromDictNoFlag(data, shuffled) ==
    [original_deck |-> DictsToCards(data.original_deck),
     state |-> [SetupGame(shuffled) EXCEPT
        !.hand = DictsToCards(data.hand),
        !.deck = DictsToCards(data.deck),
        !.battlefield = DictsToCards(data.battlefield),
        !.void = DictsToCards(data.void),
        !.power_available = data.power_available,
        !.power_max = data.power_max,
        !.influence = data.influence,
        !.turn = data.turn,
        !.total_damage_potential = data.total_damage_potential,
        !.cards_played_total = data.cards_played_total,
        !.spells_cast = data.spells_cast]]

\* GoldfishSimulator.from_dict; cls(original_deck) sets a game up from the
\* shuffle given as shuffled before the fields are assigned
GoldFromDict(data, shuffled) ==
    [original_deck |-> DictsToCards(data.original_deck),
     state |-> [SetupGame(shuffled) EXCEPT
        !.hand = DictsToCards(data.hand),
        !.deck = DictsToCards(data.deck),
        !.battlefield = DictsToCards(data.battlefield),
        !.void = DictsToCards(data.void),
        !.power_available = data.power_available,
        !.power_max = data.power_max,
        !.influence = data.influence,
        !.turn = data.turn,
        !.power_played_this_turn = data.power_played_this_turn,
        !.total_damage_potential = data.total_damage_potential,
        !.cards_played_total = data.cards_played_total,
        !.spells_cast = data.spells_cast]]

\* random.shuffle inside the constructor that from_dict calls: from_dict
\* assigns every field of the game the constructor set up, so two orderings
\* are followed, the deck as it is and reversed
CtorShuffles(cards) ==
    {cards, [i \in 1..Len(cards) |-> cards[Len(cards) + 1 - i]]}

\* the draw simulator is not in use
NoDrawSim ==
    /\ deck_cards = <<>>
    /\ current_hand = <<>>
    /\ remaining_deck = <<>>
    /\ mulligan_count = 0
    /\ max_mulligans = 2
    /\ draw_call = [op |-> "none"]

\* GoldfishSimulator.from_deck
InitGold ==
    /\ tool = "goldfish"
    /\ NoDrawSim
    /\ \E deck \in GoldDecks :
         /\ original_deck = GoldFromDeckCards(deck)
         /\ \E shuffled \in Shuffle(GoldFromDeckCards(deck)) :
              state = SetupGame(shuffled)
    /\ gold_call = [op |-> "from_deck"]
    /\ NoBattle
    /\ NoAnalysis

GoldStartTurn ==
    /\ tool = "goldfish"
    /\ state.turn < MaxTurn
    /\ LET r == StartTurn(state) IN
         /\ state' = r.state
         /\ gold_call' = [op |-> "start_turn", result |-> r.result]
    /\ UNCHANGED original_deck

GoldPlayCard ==
    /\ tool = "goldfish"
    /\ \E card \in GoldCards :
         LET r == PlayCard(state, card) IN
           /\ state' = r.state
           /\ gold_call' = [op |-> "play_card", card |-> card,
                            result |-> r.result]
    /\ UNCHANGED original_deck

GoldAutoPlayTurn ==
    /\ tool = "goldfish"
    /\ LET r == AutoPlayTurn(state) IN
         /\ state' = r.state
         /\ gold_call' = [op |-> "auto_play_turn", actions |-> r.actions]
    /\ UNCHANGED original_deck

\* deck_goldfish between two requests: the state is written to the session
\* with to_dict and read back with from_dict
GoldSession ==
    /\ tool = "goldfish"
    /\ \E shuffled \in CtorShuffles(original_deck) :
         LET sim == GoldFromDict(GoldToDict(GoldSim), shuffled) IN
           /\ original_deck' = sim.original_deck
           /\ state' = sim.state
    /\ UNCHANGED gold_call

NextGold ==
    \/ GoldStartTurn /\ UNCHANGED <<tool, drawVars, battleVars, anVars>>
    \/ GoldPlayCard /\ UNCHANGED <<tool, drawVars, battleVars, anVars>>
    \/ GoldAutoPlayTurn /\ UNCHANGED <<tool, drawVars, battleVars, anVars>>
    \/ GoldSession /\ UNCHANGED <<tool, drawVars, battleVars, anVars>>

\* -------------------------------------------------------- battle simulator
\* BattleSimulator.MAX_TURNS
MAX_TURNS == 30

\* rows of the Card table that cost nothing and require no influence
Raider ==
    [id |-> 5, name |-> "Raider", card_type |-> "Unit", cost |-> 0,
     influence |-> <<>>, attack |-> 3, health |-> 2, image_url |-> "img5"]
Guard ==
    [id |-> 6, name |-> "Guard", card_type |-> "Unit", cost |-> 0,
     influence |-> <<>>, attack |-> 1, health |-> 4, image_url |-> "img6"]

\* BattleCard(...) as built by deck_to_cards; __post_init__ sets
\* current_health to health
BattleCard(card) ==
    [id |-> card.id, name |-> card.name, card_type |-> card.card_type,
     cost |-> card.cost, influence |-> OrEmpty(card.influence),
     attack |-> OrZero(card.attack), health |-> OrZero(card.health),
     current_health |-> OrZero(card.health),
     is_power |-> IsPowerType(card.card_type),
     can_attack |-> FALSE, is_tapped |-> FALSE]

\* deck_to_cards of BattleSimulator.from_decks
RECURSIVE DeckToCards(_)
DeckToCards(slots) ==
    IF slots = <<>> THEN <<>>
    ELSE LET deck_card == Head(slots) IN
         (IF deck_card.is_market THEN <<>>
          ELSE Repeat(BattleCard(deck_card.card), deck_card.quantity))
         \o DeckToCards(Tail(slots))

\* the fresh copies _create_player makes of the cards of a deck
CopyCards(cards) ==
    [i \in DOMAIN cards |->
       [cards[i] EXCEPT !.current_health = cards[i].health,
                        !.can_attack = FALSE, !.is_tapped = FALSE]]

\* PlayerState(name=name, influence={f: 0 for f in FACTIONS})
PlayerState(name) ==
    [name |-> name, health |-> 25, hand |-> <<>>, deck |-> <<>>,
     battlefield |-> <<>>, void |-> <<>>, power_available |-> 0,
     power_max |-> 0, influence |-> [f \in FACTIONS |-> 0],
     power_played_this_turn |-> FALSE]

\* for _ in range(n): if player.deck: player.hand.append(player.deck.pop(0))
DrawCards(player, n) ==
    LET k == Min2(n, Len(player.deck)) IN
    [player EXCEPT !.hand = player.hand \o SubSeq(player.deck, 1, k),
                   !.deck = SubSeq(player.deck, k + 1, Len(player.deck))]

\* [c for c in cards if c.is_power]
PowerCards(cards) == SelectSeq(cards, LAMBDA c : c.is_power)

\* power_count <= 2 or power_count >= 5
NeedsMulligan(power_count) == power_count <= 2 \/ power_count >= 5

\* BattleSimulator._draw_opening_hand: the players it can leave
DrawOpeningHand(player) ==
    LET first == DrawCards(player, 7) IN
    IF NeedsMulligan(Len(PowerCards(first.hand)))
    THEN { DrawCards([first EXCEPT !.deck = shuffled, !.hand = <<>>], 6) :
             shuffled \in Shuffle(first.deck \o first.hand) }
    ELSE {first}

\* BattleSimulator._create_player: the players it can return
CreatePlayer(cards, name) ==
    UNION { DrawOpeningHand([PlayerState(name) EXCEPT !.deck = shuffled]) :
              shuffled \in Shuffle(CopyCards(cards)) }

\* BattleSimulator._can_play
BattleCanPlay(player, card) ==
    IF card.is_power THEN ~player.power_played_this_turn
    ELSE IF card.cost > player.power_available THEN FALSE
    ELSE LET required == ParseInfluence(card.influence) IN
         \A faction \in DOMAIN required :
            ~(Get(player.influence, faction) < required[faction])

\* card.can_attack = False (summoning sickness)
EntersSick(card) == [card EXCEPT !.can_attack = FALSE]

\* BattleSimulator._play_card
BattlePlayCard(player, card) ==
    IF card \notin Range(player.hand) THEN player
    ELSE
      LET p1 == [player EXCEPT !.hand = ListRemove(player.hand, card)] IN
      IF card.is_power
      THEN [p1 EXCEPT
              !.power_played_this_turn = TRUE,
              !.power_max = p1.power_max + 1,
              !.power_available = p1.power_available + 1,
              !.influence = AddInfluence(p1.influence, card.influence),
              !.void = Append(p1.void, card)]
      ELSE IF card.card_type = "Unit"
      THEN [p1 EXCEPT
              !.battlefield = Append(p1.battlefield, EntersSick(card)),
              !.power_available = p1.power_available - card.cost]
      ELSE [p1 EXCEPT
              !.void = Append(p1.void, card),
              !.power_available = p1.power_available - card.cost]

\* the unit loop of _ai_play_turn
RECURSIVE AiPlayUnits(_)
AiPlayUnits(player) ==
    LET playable ==
          SelectSeq(player.hand,
                    LAMBDA c : c.card_type = "Unit" /\ BattleCanPlay(player, c))
    IN IF playable = <<>> THEN player
       ELSE AiPlayUnits(BattlePlayCard(player, HighestCostFirst(playable)))

\* BattleSimulator._ai_play_turn
AiPlayTurn(player) ==
    LET power_cards == PowerCards(player.hand) IN
    AiPlayUnits(IF power_cards # <<>> /\ ~player.power_played_this_turn
                THEN BattlePlayCard(player, power_cards[1])
                ELSE player)

\* list.sort(key=..., reverse=True) of a list of objects named by keys, value
\* giving the sort key of each object: descending and stable
RECURSIVE SortDescending(_, _)
SortDescending(keys, value) ==
    IF keys = <<>> THEN <<>>
    ELSE LET i == CHOOSE i \in DOMAIN keys :
                    /\ \A j \in DOMAIN keys : value[keys[j]] <= value[keys[i]]
                    /\ \A j \in 1..(i - 1) : value[keys[j]] < value[keys[i]]
         IN <<keys[i]>> \o SortDescending(RemoveAt(keys, i), value)

\* a removal that leaves the list as it is
KeepsObject(keys, store, key) == keys

\* list.remove(obj) on a list of objects named by keys: the first object
\* equal in value to obj is removed
RemoveObject(keys, store, key) ==
    RemoveAt(keys, CHOOSE i \in DOMAIN keys :
                     /\ store[keys[i]] = store[key]
                     /\ \A j \in 1..(i - 1) : store[keys[j]] # store[key])

\* a choice of blocker that takes the unit of lowest current health
LowestHealthFirst(blockers, units) ==
    blockers[CHOOSE i \in DOMAIN blockers :
               \A j \in DOMAIN blockers :
                  units[blockers[i]].current_health
                    <= units[blockers[j]].current_health]

\* blockers.sort(key=current_health, reverse=True); blocker = blockers[0]
HighestHealthFirst(blockers, units) ==
    SortDescending(blockers,
                   [k \in DOMAIN units |-> units[k].current_health])[1]

\* one attacker meeting a blocker in _resolve_combat: both take the other's
\* attack, and a unit whose current health is not positive leaves its
\* battlefield for its owner's void.  blockers is the sorted list and blocker
\* its first unit.
Fight(c, atk, blockers, blocker) ==
    LET d_health == c.d_units[blocker].current_health - c.a_units[atk].attack
        a_health == c.a_units[atk].current_health - c.d_units[blocker].attack
        d_units == [c.d_units EXCEPT ![blocker].current_health = d_health]
        a_units == [c.a_units EXCEPT ![atk].current_health = a_health]
    IN [c EXCEPT
          !.a_units = a_units,
          !.d_units = d_units,
          !.d_battlefield =
              IF d_health <= 0
              THEN RemoveObject(c.d_battlefield, d_units, blocker)
              ELSE c.d_battlefield,
          !.d_void = IF d_health <= 0 THEN Append(c.d_void, blocker)
                     ELSE c.d_void,
          !.blockers =
              IF d_health <= 0 THEN RemoveObject(blockers, d_units, blocker)
              ELSE blockers,
          !.a_battlefield =
              IF a_health <= 0
              THEN RemoveObject(c.a_battlefield, a_units, atk)
              ELSE c.a_battlefield,
          !.a_void = IF a_health <= 0 THEN Append(c.a_void, atk)
                     ELSE c.a_void,
          !.rounds = Append(c.rounds, <<atk, Some(blocker)>>)]

\* the loop of _resolve_combat over the attackers.  The units of the two
\* battlefields are objects named by their positions before combat (a_units,
\* d_units hold their fields); the lists hold the names.  rounds records, for
\* each attacker in turn, the blocker it met, if any.
RECURSIVE CombatLoop(_, _)
CombatLoop(c, attackers) ==
    IF attackers = <<>> THEN c
    ELSE IF c.blockers # <<>>
    THEN CombatLoop(
           Fight(c, Head(attackers),
                 SortDescending(c.blockers,
                   [k \in DOMAIN c.d_units |-> c.d_units[k].current_health]),
                 HighestHealthFirst(c.blockers, c.d_units)),
           Tail(attackers))
    ELSE CombatLoop(
           [c EXCEPT !.total_damage =
                         c.total_damage + c.a_units[Head(attackers)].attack,
                     !.rounds = Append(c.rounds, <<Head(attackers), None>>)],
           Tail(attackers))

\* the units that attack: [c for c in attacker.battlefield if c.can_attack and
\* not c.is_tapped], sorted by attack, highest first, as names
Attackers(attacker) ==
    SortDescending(
      SelectSeq([i \in DOMAIN attacker.battlefield |-> i],
        LAMBDA k : /\ attacker.battlefield[k].can_attack
                   /\ ~attacker.battlefield[k].is_tapped),
      [k \in DOMAIN attacker.battlefield |-> attacker.battlefield[k].attack])

\* both players and the damage once the loop of _resolve_combat has ended in c
CombatResult(attacker, defender, c) ==
    [attacker |->
       [attacker EXCEPT
          !.battlefield = [i \in DOMAIN c.a_battlefield |->
                             c.a_units[c.a_battlefield[i]]],
          !.void = attacker.void \o
                     [i \in DOMAIN c.a_void |-> c.a_units[c.a_void[i]]]],
     defender |->
       [defender EXCEPT
          !.battlefield = [i \in DOMAIN c.d_battlefield |->
                             c.d_units[c.d_battlefield[i]]],
          !.void = defender.void \o
                     [i \in DOMAIN c.d_void |-> c.d_units[c.d_void[i]]]],
     damage |-> c.total_damage,
     rounds |-> c.rounds]

\* BattleSimulator._resolve_combat: both players after combat and the damage
\* returned
ResolveCombat(attacker, defender) ==
    IF Attackers(attacker) = <<>>
    THEN [attacker |-> attacker, defender |-> defender, damage |-> 0,
          rounds |-> <<>>]
    ELSE CombatResult(attacker, defender,
           CombatLoop(
             [a_units |-> attacker.battlefield,
              d_units |-> defender.battlefield,
              a_battlefield |-> [i \in DOMAIN attacker.battlefield |-> i],
              d_battlefield |-> [i \in DOMAIN defender.battlefield |-> i],
              a_void |-> <<>>, d_void |-> <<>>,
              blockers |-> [i \in DOMAIN defender.battlefield |-> i],
              total_damage |-> 0, rounds |-> <<>>],
             Attackers(attacker)))

\* a Deck row with its slots in Meta.ordering (is_market, card__cost,
\* card__name); a deck name is written as a pair of a word and a number
Deck(name, slots) == [name |-> name, slots |-> slots]

\* decks of one card: units that cost nothing, or spells the AI never plays
UniformDecks ==
    { Deck(<<c.name, n>>, <<Slot(c, n, FALSE)>>) :
        c \in {Raider, Guard}, n \in 0..MaxUnitQty }
    \cup { Deck(<<"Torch", n>>, <<Slot(Torch, n, FALSE)>>) :
             n \in (MaxFiller - 2)..MaxFiller }

\* decks of two cards, one with a market slot
MixedDecks ==
    { Deck(<<"Skirmish", 8>>, <<Slot(Guard, 4, FALSE), Slot(Raider, 4, FALSE),
                         Slot(Ogre, 1, TRUE)>>),
      Deck(<<"Grenadins", 8>>, <<Slot(FireSigil, 3, FALSE),
                          Slot(Grenadin, 5, FALSE)>>) }

\* a deck of spells with a single unit
LoneGuard ==
    Deck(<<"Lone Guard", MaxFiller + 1>>,
         <<Slot(Guard, 1, FALSE), Slot(Torch, MaxFiller, FALSE)>>)

\* a small deck of spells with a single unit, simulated against itself: the
\* two decks are the same Deck row, so they carry the same name
Mirror ==
    Deck(<<"Mirror", 8>>, <<Slot(Guard, 1, FALSE), Slot(Torch, 7, FALSE)>>)

\* the opponents the decks of two cards are simulated against
Opponents ==
    { Deck(<<c.name, MaxUnitQty>>, <<Slot(c, MaxUnitQty, FALSE)>>) :
        c \in {Raider, Guard} }
    \cup { Deck(<<"Torch", MaxFiller>>, <<Slot(Torch, MaxFiller, FALSE)>>) }

\* the spell decks
FillerDecks == { d \in UniformDecks : d.name[1] = "Torch" }

\* the pairs (deck1, deck2) handed to from_decks
Matchups ==
    (UniformDecks \X UniformDecks)
    \cup (MixedDecks \X Opponents) \cup (Opponents \X MixedDecks)
    \cup ({LoneGuard} \X FillerDecks) \cup (FillerDecks \X {LoneGuard})
    \cup ({Mirror} \X {Mirror})

\* the pairs simulate_games is followed on
GamesMatchups ==
    LET decks == Opponents \cup
                 { Deck(<<"Torch", MaxFiller - 1>>,
                        <<Slot(Torch, MaxFiller - 1, FALSE)>>),
                   Deck(<<"Raider", 0>>, <<Slot(Raider, 0, FALSE)>>) }
    IN decks \X decks

\* BattleSimulator.from_decks
FromDecks(deck1, deck2) ==
    [deck1_cards |-> DeckToCards(deck1.slots),
     deck2_cards |-> DeckToCards(deck2.slots),
     deck1_name |-> deck1.name, deck2_name |-> deck2.name]

\* no simulate_game call is in progress
NoGame == [pc |-> "idle"]

\* a simulator built by from_decks, before simulate_game is called
InitBattle ==
    /\ tool = "battle"
    /\ NoDrawSim
    /\ original_deck = <<>>
    /\ state = <<>>
    /\ gold_call = [op |-> "none"]
    /\ \E m \in Matchups : battle_sim = FromDecks(m[1], m[2])
    /\ game = NoGame
    /\ tally = <<>>
    /\ battle_call = [op |-> "from_decks"]
    /\ NoAnalysis

\* the locals of simulate_games before its loop
NewTally(num_games) ==
    [num_games |-> num_games, results |-> <<>>, p1_wins |-> 0,
     p2_wins |-> 0, draws |-> 0, total_turns |-> 0,
     total_p1_health |-> 0, total_p2_health |-> 0]

\* a simulator built by from_decks and a call simulate_games(num_games)
InitGames ==
    /\ tool = "battles"
    /\ NoDrawSim
    /\ original_deck = <<>>
    /\ state = <<>>
    /\ gold_call = [op |-> "none"]
    /\ \E m \in GamesMatchups : battle_sim = FromDecks(m[1], m[2])
    /\ game = NoGame
    /\ \E num_games \in 1..MaxGames : tally = NewTally(num_games)
    /\ battle_call = [op |-> "from_decks"]
    /\ NoAnalysis

\* current and other of simulate_game
Current(g) == IF g.current = 1 THEN g.player1 ELSE g.player2
Other(g) == IF g.current = 1 THEN g.player2 ELSE g.player1

\* assignments through current and other
SetCurrent(g, p) ==
    IF g.current = 1 THEN [g EXCEPT !.player1 = p] ELSE [g EXCEPT !.player2 = p]
SetOther(g, p) ==
    IF g.current = 1 THEN [g EXCEPT !.player2 = p] ELSE [g EXCEPT !.player1 = p]

\* current == player1: PlayerState is a dataclass, so == compares the fields
CurrentEqPlayer1(g) == Current(g) = g.player1

\* simulate_game up to the choice of the first player
BattleStartGame ==
    /\ tool \in {"battle", "battles"}
    /\ game.pc = "idle"
    /\ \E player1 \in CreatePlayer(battle_sim.deck1_cards,
                                   battle_sim.deck1_name),
          player2 \in CreatePlayer(battle_sim.deck2_cards,
                                   battle_sim.deck2_name),
          first \in {1, 2} :
         /\ game' = [pc |-> "loop", player1 |-> player1,
                     player2 |-> player2, turn |-> 0,
                     p1_units_played |-> 0, p2_units_played |-> 0,
                     p1_damage_dealt |-> 0, p2_damage_dealt |-> 0,
                     current |-> first, result |-> None]
         /\ battle_call' = [op |-> "start_game", first |-> first]
    /\ UNCHANGED <<battle_sim, tally>>

\* the untap step
Untap(player) ==
    [player EXCEPT
       !.power_available = player.power_max,
       !.power_played_this_turn = FALSE,
       !.battlefield = [i \in DOMAIN player.battlefield |->
                          [player.battlefield[i] EXCEPT !.is_tapped = FALSE,
                                                        !.can_attack = TRUE]]]

\* a loop test that lets the turn after the cap begin
LoopGoesOnAtCap(turn) == turn <= MAX_TURNS

\* while turn < self.MAX_TURNS
LoopGoesOn(turn) == turn < MAX_TURNS

\* the head of the loop of simulate_game, the untap step and the draw step
BattleBeginTurn ==
    /\ tool \in {"battle", "battles"}
    /\ game.pc = "loop"
    /\ IF LoopGoesOn(game.turn)
       THEN
         LET g1 == [game EXCEPT !.turn = game.turn + 1]
             g2 == SetCurrent(g1, Untap(Current(g1)))
         IN IF ~(g2.turn = 1 /\ CurrentEqPlayer1(g2))
            THEN IF Current(g2).deck # <<>>
                 THEN /\ game' = [SetCurrent(g2, DrawCards(Current(g2), 1))
                                    EXCEPT !.pc = "main"]
                      /\ battle_call' = [op |-> "begin_turn", draw |-> "drawn"]
                 ELSE /\ game' = [g2 EXCEPT !.pc = "end"]
                      /\ battle_call' = [op |-> "begin_turn", draw |-> "empty"]
            ELSE /\ game' = [g2 EXCEPT !.pc = "main"]
                 /\ battle_call' = [op |-> "begin_turn", draw |-> "skipped"]
       ELSE /\ game' = [game EXCEPT !.pc = "end"]
            /\ battle_call' = [op |-> "begin_turn", draw |-> "cap"]
    /\ UNCHANGED <<battle_sim, tally>>

\* the game once the AI's plays have left the current player as played:
\* the units that entered the battlefield are added to the player's count
AfterMain(g, played) ==
    LET units_played == Len(played.battlefield) - Len(Current(g).battlefield)
        g1 == SetCurrent(g, played)
    IN IF CurrentEqPlayer1(g1)
       THEN [g1 EXCEPT !.pc = "combat",
                       !.p1_units_played = g.p1_units_played + units_played]
       ELSE [g1 EXCEPT !.pc = "combat",
                       !.p2_units_played = g.p2_units_played + units_played]

\* the AI's plays of the turn and the count of the units played
BattleMain ==
    /\ tool \in {"battle", "battles"}
    /\ game.pc = "main"
    /\ \E played \in {AiPlayTurn(Current(game))} :
         /\ game' = AfterMain(game, played)
         /\ battle_call' =
              [op |-> "main",
               units_played |-> Len(played.battlefield)
                                  - Len(Current(game).battlefield)]
    /\ UNCHANGED <<battle_sim, tally>>

\* a life total that grows by the damage
GainsDamage(player, damage) ==
    [player EXCEPT !.health = player.health + damage]

\* other.health -= damage
TakesDamage(player, damage) ==
    [player EXCEPT !.health = player.health - damage]

\* the game once _resolve_combat has returned r: the damage is taken by the
\* other player and added to the current player's count; the loop is left if
\* the other player's health is not positive, else the players are swapped
AfterCombat(g, r) ==
    LET g1 == SetOther(SetCurrent(g, r.attacker),
                       TakesDamage(r.defender, r.damage))
        g2 == IF CurrentEqPlayer1(g1)
              THEN [g1 EXCEPT !.p1_damage_dealt =
                                  g.p1_damage_dealt + r.damage]
              ELSE [g1 EXCEPT !.p2_damage_dealt =
                                  g.p2_damage_dealt + r.damage]
    IN IF Other(g2).health <= 0
       THEN [g2 EXCEPT !.pc = "end"]
       ELSE [g2 EXCEPT !.pc = "loop", !.current = 3 - g.current]

\* combat, the damage to the other player, the check for a win and the swap
BattleCombat ==
    /\ tool \in {"battle", "battles"}
    /\ game.pc = "combat"
    /\ \E r \in {ResolveCombat(Current(game), Other(game))} :
         /\ game' = AfterCombat(game, r)
         /\ battle_call' = [op |-> "combat", damage |-> r.damage,
                            rounds |-> r.rounds]
    /\ UNCHANGED <<battle_sim, tally>>

\* the if/elif chain of simulate_game that determines the winner
Winner(player1, player2) ==
    IF player1.health <= 0 /\ player2.health <= 0 THEN "draw"
    ELSE IF player2.health <= 0 THEN "player1"
    ELSE IF player1.health <= 0 THEN "player2"
    ELSE IF player1.deck = <<>> THEN "player2"
    ELSE IF player2.deck = <<>> THEN "player1"
    ELSE IF player1.health > player2.health THEN "player1"
    ELSE IF player2.health > player1.health THEN "player2"
    ELSE "draw"

\* max(0, health)
Max0(x) == IF x > 0 THEN x ELSE 0

\* BattleResult(...) as simulate_game returns it
BattleResult(g) ==
    [winner |-> Winner(g.player1, g.player2),
     turns |-> g.turn,
     player1_final_health |-> Max0(g.player1.health),
     player2_final_health |-> Max0(g.player2.health),
     player1_units_played |-> g.p1_units_played,
     player2_units_played |-> g.p2_units_played,
     player1_damage_dealt |-> g.p1_damage_dealt,
     player2_damage_dealt |-> g.p2_damage_dealt]

\* the end of simulate_game: the winner and the returned BattleResult
BattleFinish ==
    /\ tool \in {"battle", "battles"}
    /\ game.pc = "end"
    /\ game' = [game EXCEPT !.pc = "done", !.result = Some(BattleResult(game))]
    /\ battle_call' = [op |-> "simulate_game", result |-> BattleResult(game)]
    /\ UNCHANGED <<battle_sim, tally>>

\* a tally that counts a win of player 2 as a draw as well
CountedTwice(t, result) ==
    [t EXCEPT
       !.results = Append(t.results, result),
       !.p1_wins = IF result.winner = "player1" THEN t.p1_wins + 1
                   ELSE t.p1_wins,
       !.p2_wins = IF result.winner = "player2" THEN t.p2_wins + 1
                   ELSE t.p2_wins,
       !.draws = IF result.winner # "player1" THEN t.draws + 1 ELSE t.draws,
       !.total_turns = t.total_turns + result.turns,
       !.total_p1_health = t.total_p1_health + result.player1_final_health,
       !.total_p2_health = t.total_p2_health + result.player2_final_health]

\* the body of the loop of simulate_games after simulate_game has returned
Counted(t, result) ==
    [t EXCEPT
       !.results = Append(t.results, result),
       !.p1_wins = IF result.winner = "player1" THEN t.p1_wins + 1
                   ELSE t.p1_wins,
       !.p2_wins = IF result.winner = "player2" THEN t.p2_wins + 1
                   ELSE t.p2_wins,
       !.draws = IF result.winner \notin {"player1", "player2"}
                 THEN t.draws + 1 ELSE t.draws,
       !.total_turns = t.total_turns + result.turns,
       !.total_p1_health = t.total_p1_health + result.player1_final_health,
       !.total_p2_health = t.total_p2_health + result.player2_final_health]

\* SimulationResult(...) as simulate_games returns it; a quotient a / b is
\* kept as the pair <<a, b>>
SimulationResult(t) ==
    [games_played |-> t.num_games,
     player1_wins |-> t.p1_wins,
     player2_wins |-> t.p2_wins,
     draws |-> t.draws,
     avg_game_length |-> <<t.total_turns, t.num_games>>,
     avg_player1_health |-> <<t.total_p1_health, t.num_games>>,
     avg_player2_health |-> <<t.total_p2_health, t.num_games>>,
     player1_win_rate |-> <<t.p1_wins * 100, t.num_games>>,
     player2_win_rate |-> <<t.p2_wins * 100, t.num_games>>,
     results |-> t.results]

\* simulate_games: a game has returned; it is counted, and either the next
\* game is started or the SimulationResult is returned
GamesCount ==
    /\ tool = "battles"
    /\ game.pc = "done"
    /\ LET t == Counted(tally, game.result[1]) IN
         /\ tally' = t
         /\ IF Len(t.results) < t.num_games
            THEN /\ game' = NoGame
                 /\ battle_call' = [op |-> "counted"]
            ELSE /\ game' = [pc |-> "returned"]
                 /\ battle_call' = [op |-> "simulate_games",
                                    result |-> SimulationResult(t)]
    /\ UNCHANGED battle_sim

NextBattle ==
    \/ BattleStartGame /\ UNCHANGED <<tool, drawVars, goldVars, anVars>>
    \/ BattleBeginTurn /\ UNCHANGED <<tool, drawVars, goldVars, anVars>>
    \/ BattleMain /\ UNCHANGED <<tool, drawVars, goldVars, anVars>>
    \/ BattleCombat /\ UNCHANGED <<tool, drawVars, goldVars, anVars>>
    \/ BattleFinish /\ UNCHANGED <<tool, drawVars, goldVars, anVars>>

NextGames ==
    \/ NextBattle
    \/ GamesCount /\ UNCHANGED <<tool, drawVars, goldVars, anVars>>

\* one call of simulate_game on every pair of decks
SpecBattle == InitBattle /\ [][NextBattle]_vars

\* one call of simulate_games
SpecGames == InitGames /\ [][NextGames]_vars

\* the steps of a simulate_game call after its players were created
BattleRun ==
    /\ BattleBeginTurn \/ BattleMain \/ BattleCombat \/ BattleFinish
    /\ UNCHANGED <<tool, drawVars, goldVars, anVars>>

\* the positions of simulate_game at which a step remains to be taken: each
\* of the four steps can be taken in every state of its position and changes
\* game.pc, so ENABLED <<BattleRun>>_vars is game.pc \in Running
Running == {"loop", "main", "combat", "end"}

\* simulate_game runs on one thread without waiting on anything: once it is
\* called, a step that can be taken is taken.  This is WF_vars(BattleRun),
\* written out with ENABLED <<BattleRun>>_vars replaced by game.pc \in Running
SpecBattleFair ==
    /\ SpecBattle
    /\ []<>(game.pc \notin Running) \/ []<><<BattleRun>>_vars

\* ----------------------------------------------------------------- analyzers
\* the character of a string at a position, as a string of length 1
Char(s, i) == SubSeq(s, i, i)

\* str.startswith
StartsWith(s, prefix) ==
    Len(prefix) <= Len(s) /\ SubSeq(s, 1, Len(prefix)) = prefix

\* sub in s
Contains(s, sub) ==
    \E i \in 1..(Len(s) - Len(sub) + 1) :
       SubSeq(s, i, i + Len(sub) - 1) = sub

\* str.strip()
Strip(s) ==
    LET kept == {i \in 1..Len(s) : Char(s, i) \notin {" ", "\t", "\n", "\r"}}
    IN
    IF kept = {} THEN ""
    ELSE SubSeq(s, CHOOSE i \in kept : \A j \in kept : i <= j,
                   CHOOSE i \in kept : \A j \in kept : j <= i)

\* rows of the Card table with their rules text and unit types.  unit_types
\* is a JSONField: the importer stores a list of strings ([list |-> ...]),
\* and a string can be stored as well ([str |-> ...])

TimeSigil ==
    [id |-> 11, name |-> "Time Sigil", card_type |-> "Sigil", cost |-> 0,
     influence |-> <<"{", "T", "}">>, attack |-> 0, health |-> 0,
     card_text |-> "", unit_types |-> [list |-> <<>>], image_url |-> "img11"]
Banner ==
    [id |-> 12, name |-> "Banner", card_type |-> "Power", cost |-> 0,
     influence |-> <<"{", "F", "}", "{", "T", "}">>, attack |-> 0,
     health |-> 0, card_text |-> "Depleted unless you have a Sigil.",
     unit_types |-> [list |-> <<>>], image_url |-> "img12"]
Crest ==
    [id |-> 13, name |-> "Crest", card_type |-> "Power", cost |-> 0,
     influence |-> <<"{", "F", "}", "{", "F", "}">>, attack |-> 0,
     health |-> 0, card_text |-> " Depleted. Scout.",
     unit_types |-> [list |-> <<>>], image_url |-> "img13"]
Seat ==
    [id |-> 14, name |-> "Seat", card_type |-> "Power", cost |-> 0,
     influence |-> <<"{", "T", "}", "{", "J", "}">>, attack |-> 0,
     health |-> 0,
     card_text |-> "Depleted; Depleted unless you have a Sigil.",
     unit_types |-> [list |-> <<>>], image_url |-> "img14"]
Waystone ==
    [id |-> 15, name |-> "Waystone", card_type |-> "Power", cost |-> 0,
     influence |-> <<>>, attack |-> 0, health |-> 0,
     card_text |-> "Flying units get +1/+1.",
     unit_types |-> [list |-> <<>>], image_url |-> "img15"]
Owl ==
    [id |-> 16, name |-> "Owl", card_type |-> "Unit", cost |-> 1,
     influence |-> <<"{", "T", "}">>, attack |-> 1, health |-> 1,
     card_text |-> "Flying", unit_types |-> [str |-> "Owl, Bird"],
     image_url |-> "img16"]
Drake ==
    [id |-> 17, name |-> "Drake", card_type |-> "Unit", cost |-> 2,
     influence |-> <<"{", "F", "}">>, attack |-> 3, health |-> 2,
     card_text |-> "flying; Overwhelm. Other Flying units get +1/+1.",
     unit_types |-> [list |-> <<"Dragon">>], image_url |-> "img17"]
Moth ==
    [id |-> 18, name |-> "Moth", card_type |-> "Unit", cost |-> 1,
     influence |-> <<"{", "T", "}">>, attack |-> 1, health |-> 1,
     card_text |-> "Butterflying_", unit_types |-> [str |-> ""],
     image_url |-> "img18"]

\* the power rows and the other rows of the analysed decks
PowerRows == {TimeSigil, Banner, Crest, Seat, Waystone}
UnitRows == {Owl, Drake, Moth}

\* the analysed decks, slots in Meta.ordering (is_market, card__cost,
\* card__name): one or two power slots, a unit slot, at most one market slot
AnalysisDecks ==
    { <<Slot(p, q, FALSE)>> \o more \o <<Slot(u, n, FALSE)>> \o market :
        p \in PowerRows, q \in 1..MaxCopies,
        more \in {<<>>, <<Slot(Seat, 1, FALSE)>>},
        u \in UnitRows, n \in 1..MaxCopies,
        market \in {<<>>, <<Slot(Banner, 1, TRUE)>>, <<Slot(Drake, 1, TRUE)>>} }

\* DeckPowerAnalyzer._parse_influence: the loop of the goldfish simulator's
\* _parse_influence over the keys of FACTIONS
PowerParseInfluence(influence_str) == ParseInfluence(influence_str)

\* DeckPowerAnalyzer._is_depleted
IsDepleted(card_text) ==
    IF card_text = "" THEN FALSE
    ELSE \/ StartsWith(Strip(card_text), "Depleted;")
         \/ StartsWith(Strip(card_text), "Depleted.")

\* DeckPowerAnalyzer._is_conditional
IsConditional(card_text) ==
    IF card_text = "" THEN FALSE ELSE Contains(card_text, "Depleted unless")

\* PowerSource(...) as built by _analyze_power_sources
PowerSource(deck_card) ==
    [card_name |-> deck_card.card.name,
     card_id |-> deck_card.card.id,
     quantity |-> deck_card.quantity,
     influence_provided |-> PowerParseInfluence(deck_card.card.influence),
     is_depleted |-> IsDepleted(deck_card.card.card_text),
     is_conditional |-> IsConditional(deck_card.card.card_text),
     power_provided |-> 1]

\* a loop over the slots that leaves the market slots out
MainSlots(slots) == SelectSeq(slots, LAMBDA deck_card : ~deck_card.is_market)

\* sum(row.quantity for row in rows)
RECURSIVE SumQuantity(_)
SumQuantity(rows) ==
    IF rows = <<>> THEN 0 ELSE Head(rows).quantity + SumQuantity(Tail(rows))

\* the slots _analyze_power_sources makes a PowerSource of
IsPowerSource(deck_card) ==
    /\ IsPowerType(deck_card.card.card_type)
    /\ PowerParseInfluence(deck_card.card.influence) # <<>>

\* DeckPowerAnalyzer._analyze_power_sources over
\* self.deck.cards.select_related('card').all(), every slot of the deck:
\* total_cards and power_sources
AnalyzePowerSources(slots) ==
    [total_cards |-> SumQuantity(slots),
     power_sources |->
        [i \in DOMAIN SelectSeq(slots, IsPowerSource) |->
           PowerSource(SelectSeq(slots, IsPowerSource)[i])]]

\* get_total_power_count, get_undepleted_count, get_depleted_count and
\* get_conditional_count
GetTotalPowerCount(power_sources) == SumQuantity(power_sources)
GetUndepletedCount(power_sources) ==
    SumQuantity(SelectSeq(power_sources,
                  LAMBDA ps : ~ps.is_depleted /\ ~ps.is_conditional))
GetDepletedCount(power_sources) ==
    SumQuantity(SelectSeq(power_sources, LAMBDA ps : ps.is_depleted))
GetConditionalCount(power_sources) ==
    SumQuantity(SelectSeq(power_sources, LAMBDA ps : ps.is_conditional))

\* DeckPowerAnalyzer.get_influence_sources
RECURSIVE GetInfluenceSources(_)
GetInfluenceSources(power_sources) ==
    IF power_sources = <<>> THEN [faction \in FACTIONS |-> 0]
    ELSE [faction \in FACTIONS |->
            GetInfluenceSources(
              SubSeq(power_sources, 1, Len(power_sources) - 1))[faction]
            + (IF faction \in
                    DOMAIN power_sources[Len(power_sources)].influence_provided
               THEN power_sources[Len(power_sources)].quantity
               ELSE 0)]

\* the if/elif/else of get_power_sources_by_category
CategoryOf(ps) ==
    IF ps.is_conditional THEN "conditional"
    ELSE IF ps.is_depleted THEN "depleted"
    ELSE "undepleted"

\* DeckPowerAnalyzer.get_power_sources_by_category
GetPowerSourcesByCategory(power_sources) ==
    [category \in {"undepleted", "depleted", "conditional"} |->
       SelectSeq(power_sources, LAMBDA ps : CategoryOf(ps) = category)]

\* what the methods of a DeckPowerAnalyzer return, its fields being analyzer
PowerMethods(analyzer) ==
    [total_cards |-> analyzer.total_cards,
     power_sources |-> analyzer.power_sources,
     total_power_count |-> GetTotalPowerCount(analyzer.power_sources),
     undepleted_count |-> GetUndepletedCount(analyzer.power_sources),
     depleted_count |-> GetDepletedCount(analyzer.power_sources),
     conditional_count |-> GetConditionalCount(analyzer.power_sources),
     influence_sources |-> GetInfluenceSources(analyzer.power_sources),
     categories |-> GetPowerSourcesByCategory(analyzer.power_sources)]

\* card_info of DeckAnalyzer._load_cards
CardInfo(deck_card) ==
    [id |-> deck_card.card.id, name |-> deck_card.card.name,
     cost |-> deck_card.card.cost, card_type |-> deck_card.card.card_type,
     influence |-> deck_card.card.influence,
     attack |-> deck_card.card.attack, health |-> deck_card.card.health,
     card_text |-> deck_card.card.card_text,
     unit_types |-> deck_card.card.unit_types,
     image_url |-> deck_card.card.image_url,
     quantity |-> deck_card.quantity,
     is_power |-> IsPowerType(deck_card.card.card_type)]

\* the loop of DeckAnalyzer._load_cards: card_info is appended once for each
\* copy of a slot that is not a market slot
RECURSIVE LoadedCards(_)
LoadedCards(slots) ==
    IF slots = <<>> THEN <<>>
    ELSE (IF Head(slots).is_market THEN <<>>
          ELSE Repeat(CardInfo(Head(slots)), Head(slots).quantity))
         \o LoadedCards(Tail(slots))

\* DeckAnalyzer._load_cards: cards, power_cards and non_power_cards
LoadCards(slots) ==
    [cards |-> LoadedCards(slots),
     power_cards |-> SelectSeq(LoadedCards(slots), LAMBDA c : c.is_power),
     non_power_cards |->
        SelectSeq(LoadedCards(slots), LAMBDA c : ~c.is_power)]

\* DeckAnalyzer.KEYWORDS
KEYWORDS ==
    <<"Flying", "Overwhelm", "Lifesteal", "Deadly", "Quickdraw", "Endurance",
      "Aegis", "Charge", "Unblockable", "Revenge", "Destiny", "Echo",
      "Warp", "Infiltrate", "Killer", "Reckless", "Scout", "Mentor",
      "Student", "Tribute", "Ultimate", "Summon", "Entomb", "Spark",
      "Spellcraft", "Empower", "Twist", "Plunder", "Imbue", "Inscribe",
      "Amplify", "Invoke", "Bond", "Ally", "Renown", "Berserk",
      "Double Damage", "Lifegain", "Silence", "Stun", "Shift">>

\* the lower-case letter of each upper-case letter
LowerOf ==
    LET upper == "ABCDEFGHIJKLMNOPQRSTUVWXYZ"
        lower == "abcdefghijklmnopqrstuvwxyz"
    IN [c \in {Char(upper, i) : i \in 1..Len(upper)} |->
          Char(lower, CHOOSE i \in 1..Len(upper) : Char(upper, i) = c)]

\* the characters \w matches
WordChars ==
    DOMAIN LowerOf \cup Range(LowerOf)
    \cup {"0", "1", "2", "3", "4", "5", "6", "7", "8", "9", "_"}

\* str.lower(), the case folding of re.IGNORECASE
RECURSIVE ToLower(_)
ToLower(s) ==
    IF s = "" THEN ""
    ELSE (IF Char(s, 1) \in DOMAIN LowerOf THEN LowerOf[Char(s, 1)]
          ELSE Char(s, 1))
         \o ToLower(SubSeq(s, 2, Len(s)))

\* a match of \bword\b in text, both in lower case: the word, which begins
\* and ends with a word character, stands at a place where no word character
\* comes before it or after it
FoundIn(word, text) ==
    \E i \in 1..(Len(text) - Len(word) + 1) :
       /\ SubSeq(text, i, i + Len(word) - 1) = word
       /\ i = 1 \/ Char(text, i - 1) \notin WordChars
       /\ \/ i + Len(word) - 1 = Len(text)
          \/ Char(text, i + Len(word)) \notin WordChars

\* str.split(',')
RECURSIVE Split(_)
Split(s) ==
    IF \A i \in 1..Len(s) : Char(s, i) # "," THEN <<s>>
    ELSE <<SubSeq(s, 1, (CHOOSE i \in 1..Len(s) :
                           /\ Char(s, i) = ","
                           /\ \A j \in 1..(i - 1) : Char(s, j) # ",") - 1)>>
         \o Split(SubSeq(s, (CHOOSE i \in 1..Len(s) :
                               /\ Char(s, i) = ","
                               /\ \A j \in 1..(i - 1) : Char(s, j) # ",") + 1,
                         Len(s)))

\* [t.strip() for t in unit_types.split(',') if t.strip()]
UnitTypeTags(text) ==
    SelectSeq([i \in DOMAIN Split(text) |-> Strip(Split(text)[i])],
              LAMBDA t : t # "")

\* if card['unit_types']: a list that is not empty, or a string that is not
\* empty
HasUnitTypes(card) ==
    IF "list" \in DOMAIN card.unit_types THEN card.unit_types.list # <<>>
    ELSE card.unit_types.str # ""

\* card['unit_types'].split(',') on a list raises AttributeError
SplitFaults(card) == HasUnitTypes(card) /\ "list" \in DOMAIN card.unit_types

\* an entry of the defaultdict(lambda: {'count': 0, 'cards': []})
Entry(dict, key) ==
    IF key \in DOMAIN dict THEN dict[key] ELSE [count |-> 0, cards |-> <<>>]

\* the entry appended to the 'cards' list of a keyword or unit type
CardRef(card) ==
    [name |-> card.name, quantity |-> card.quantity,
     card_type |-> card.card_type, cost |-> card.cost]

\* dict[key]['count'] += card['quantity'], and the card is appended to
\* dict[key]['cards'] if it is new, for each key of keys in turn
RECURSIVE CountEach(_, _, _, _)
CountEach(dict, keys, card, is_new_card) ==
    IF keys = <<>> THEN dict
    ELSE CountEach(
           Put(dict, Head(keys),
               [count |-> Entry(dict, Head(keys)).count + card.quantity,
                cards |-> IF is_new_card
                          THEN Append(Entry(dict, Head(keys)).cards,
                                      CardRef(card))
                          ELSE Entry(dict, Head(keys)).cards]),
           Tail(keys), card, is_new_card)

\* the keywords for which re.search(rf'\b{keyword}\b', card_text,
\* re.IGNORECASE) finds a match, text being the card text in lower case
KeywordsIn(text) ==
    SelectSeq(KEYWORDS, LAMBDA keyword : FoundIn(ToLower(keyword), text))

\* the body of the loop of analyze_synergies over self.non_power_cards, one
\* entry for each copy: the keyword and unit-type counts (enablers, payoffs
\* and packages are derived from the texts and these counts and are left out)
SynergyStep(acc, card) ==
    [keywords |->
        CountEach(acc.keywords, KeywordsIn(ToLower(card.card_text)), card,
                  card.name \notin acc.seen_cards),
     unit_types |->
        IF HasUnitTypes(card)
        THEN CountEach(acc.unit_types, UnitTypeTags(card.unit_types.str),
                       card, card.name \notin acc.seen_cards)
        ELSE acc.unit_types,
     seen_cards |-> acc.seen_cards \cup {card.name}]

RECURSIVE SynergyLoop(_, _)
SynergyLoop(acc, cards) ==
    IF cards = <<>> THEN acc
    ELSE SynergyLoop(SynergyStep(acc, Head(cards)), Tail(cards))

\* the keywords and unit_types of a SynergyAnalysis
SynergyCounts(acc) == [keywords |-> acc.keywords, unit_types |-> acc.unit_types]

\* DeckAnalyzer.analyze_synergies: the SynergyAnalysis returned, or the
\* exception raised
AnalyzeSynergies(non_power_cards) ==
    IF \E i \in DOMAIN non_power_cards : SplitFaults(non_power_cards[i])
    THEN [fault |-> "AttributeError"]
    ELSE SynergyCounts(
           SynergyLoop([keywords |-> <<>>, unit_types |-> <<>>,
                        seen_cards |-> {}],
                       non_power_cards))

\* a deck handed to the analyzers and to the from_deck constructors
InitAnalysis ==
    /\ tool = "analysis"
    /\ NoDrawSim
    /\ original_deck = <<>>
    /\ state = <<>>
    /\ gold_call = [op |-> "none"]
    /\ NoBattle
    /\ subject \in AnalysisDecks
    /\ report = [op |-> "none"]

\* DeckPowerAnalyzer(deck) and its methods
PowerAnalyzer ==
    /\ tool = "analysis"
    /\ report' = [op |-> "power_analyzer",
                  result |-> PowerMethods(AnalyzePowerSources(subject))]
    /\ UNCHANGED subject

\* DeckAnalyzer(deck) and analyze_synergies()
DeckAnalyzer ==
    /\ tool = "analysis"
    /\ report' = [op |-> "deck_analyzer",
                  cards |-> LoadCards(subject),
                  synergies |->
                     AnalyzeSynergies(LoadCards(subject).non_power_cards)]
    /\ UNCHANGED subject

\* DrawSimulator.from_deck, GoldfishSimulator.from_deck and the deck_to_cards
\* of BattleSimulator.from_decks on the deck
SimulatorsFromDeck ==
    /\ tool = "analysis"
    /\ report' = [op |-> "from_deck",
                  draw |-> DrawFromDeckCards(subject),
                  goldfish |-> GoldFromDeckCards(subject),
                  battle |-> DeckToCards(subject)]
    /\ UNCHANGED subject

NextAnalysis ==
    \/ PowerAnalyzer /\ UNCHANGED <<tool, drawVars, goldVars, battleVars>>
    \/ DeckAnalyzer /\ UNCHANGED <<tool, drawVars, goldVars, battleVars>>
    \/ SimulatorsFromDeck /\ UNCHANGED <<tool, drawVars, goldVars, battleVars>>

\* the analyzers and the constructors applied to every analysed deck
SpecAnalysis == InitAnalysis /\ [][NextAnalysis]_vars

\* ----------------------------------------------------- probability functions
\* the for loop of binomial: result = result * (n - i) // (i + 1) for i in
\* range(k), from result = 1
RECURSIVE BinomialLoop(_, _)
BinomialLoop(n, i) ==
    IF i = 0 THEN 1 ELSE (BinomialLoop(n, i - 1) * (n - (i - 1))) \div i

\* binomial(n, k)
Binomial(n, k) ==
    IF k > n \/ k < 0 THEN 0
    ELSE IF k = 0 \/ k = n THEN 1
    ELSE BinomialLoop(n, Min2(k, n - k))

\* a float that is the quotient of two integers is kept as the pair of the
\* two; 0.0 and 1.0
Zero == <<0, 1>>
One == <<1, 1>>

\* a guard that also returns 0.0 when the draws that are no successes are
\* exactly as many as the population holds
NoRoomAtEquality(population_size, success_in_population, draws, observed_successes) ==
    draws - observed_successes >= population_size - success_in_population

\* draws - observed_successes > population_size - success_in_population
NoRoom(population_size, success_in_population, draws, observed_successes) ==
    draws - observed_successes > population_size - success_in_population

\* hypergeometric_probability(population_size, success_in_population, draws,
\* observed_successes)
HypergeometricProbability(population_size, success_in_population, draws, observed_successes) ==
    IF observed_successes > success_in_population THEN Zero
    ELSE IF observed_successes > draws THEN Zero
    ELSE IF NoRoom(population_size, success_in_population, draws,
                   observed_successes)
    THEN Zero
    ELSE IF Binomial(population_size, draws) = 0 THEN Zero
    ELSE <<Binomial(success_in_population, observed_successes)
             * Binomial(population_size - success_in_population,
                        draws - observed_successes),
           Binomial(population_size, draws)>>

\* the loop of probability_at_least: total += hypergeometric_probability(...)
\* for k in range(min_successes, max_possible + 1).  Every term is 0.0 or a
\* quotient by binomial(population_size, draws), so the total is kept as the
\* sum of the numerators over that denominator
RECURSIVE SumFrom(_, _, _, _, _)
SumFrom(population_size, success_in_population, draws, k, max_possible) ==
    IF k > max_possible THEN 0
    ELSE HypergeometricProbability(population_size, success_in_population,
                                   draws, k)[1]
         + SumFrom(population_size, success_in_population, draws, k + 1,
                   max_possible)

\* probability_at_least(population_size, success_in_population, draws,
\* min_successes)
ProbabilityAtLeast(population_size, success_in_population, draws, min_successes) ==
    IF min_successes <= 0 THEN One
    ELSE IF Binomial(population_size, draws) = 0 THEN Zero
    ELSE <<SumFrom(population_size, success_in_population, draws,
                   min_successes, Min2(draws, success_in_population)),
           Binomial(population_size, draws)>>

\* a population, the successes in it and a number of draws
InitOdds ==
    /\ tool = "odds"
    /\ NoDrawSim
    /\ original_deck = <<>>
    /\ state = <<>>
    /\ gold_call = [op |-> "none"]
    /\ NoBattle
    /\ \E N \in 0..MaxPopulation : \E K \in 0..N, n \in 0..N :
          subject = [population_size |-> N, success_in_population |-> K,
                     draws |-> n]
    /\ report = [op |-> "none"]

\* a call of hypergeometric_probability
OddsExactly ==
    /\ tool = "odds"
    /\ \E k \in -1..(subject.draws + 1) :
          report' = [op |-> "hypergeometric_probability",
                     observed_successes |-> k,
                     result |-> HypergeometricProbability(
                                  subject.population_size,
                                  subject.success_in_population,
                                  subject.draws, k)]
    /\ UNCHANGED subject

\* a call of probability_at_least
OddsAtLeast ==
    /\ tool = "odds"
    /\ \E k \in -1..(subject.draws + 1) :
          report' = [op |-> "probability_at_least",
                     min_successes |-> k,
                     result |-> ProbabilityAtLeast(
                                  subject.population_size,
                                  subject.success_in_population,
                                  subject.draws, k)]
    /\ UNCHANGED subject

NextOdds ==
    \/ OddsExactly /\ UNCHANGED <<tool, drawVars, goldVars, battleVars>>
    \/ OddsAtLeast /\ UNCHANGED <<tool, drawVars, goldVars, battleVars>>

\* the probability functions on every population up to MaxPopulation
SpecOdds == InitOdds /\ [][NextOdds]_vars

\* ------------------------------------------------- opening-hand simulation
\* the decks run_opening_hand_simulation is called on
TrialDecks ==
    { <<Slot(FireSigil, 3, FALSE), Slot(Grenadin, 4, FALSE)>>,
      <<Slot(FireSigil, 4, FALSE), Slot(Grenadin, 4, FALSE)>>,
      <<Slot(FireSigil, 5, FALSE), Slot(Grenadin, 2, FALSE)>>,
      <<Slot(FireSigil, 1, FALSE), Slot(Grenadin, 6, FALSE)>>,
      <<Slot(FireSigil, 2, FALSE), Slot(Grenadin, 6, FALSE),
        Slot(Ogre, 1, TRUE)>> }

\* mulligan if <2 or >4 power
BadPower(power_count) == power_count < 2 \/ power_count > 4

\* the counters of results that the mulligan decisions and the final power
\* count feed, before the loop; pc, done and the locals of the iteration in
\* progress are kept with them
NewResults ==
    [pc |-> "next", done |-> 0, mulligans_taken |-> 0,
     keep_rate |-> 0, mulligan_once |-> 0, mulligan_twice |-> 0,
     hands_with_2_4_power |-> 0, hands_screw |-> 0, hands_flood |-> 0]

\* a call run_opening_hand_simulation(deck, num_simulations)
InitTrials ==
    /\ tool = "trials"
    /\ NoDrawSim
    /\ original_deck = <<>>
    /\ state = <<>>
    /\ gold_call = [op |-> "none"]
    /\ NoBattle
    /\ \E deck \in TrialDecks, num_simulations \in 1..MaxTrials :
          subject = [deck |-> deck, num_simulations |-> num_simulations]
    /\ report = NewResults

\* the head of the loop and sim = cls.from_deck(deck)
TrialDeal ==
    /\ tool = "trials"
    /\ report.pc = "next"
    /\ IF report.done < subject.num_simulations
       THEN /\ \E shuffled \in Shuffle(DrawFromDeckCards(subject.deck)) :
                 SetDrawSim(ShuffleAndDraw(
                   [DrawDefaults EXCEPT
                      !.deck_cards = DrawFromDeckCards(subject.deck)],
                   shuffled))
            /\ draw_call' = [op |-> "from_deck"]
            /\ report' = [report EXCEPT !.pc = "dealt", !.mulligans_taken = 0]
       ELSE /\ report' = [report EXCEPT !.pc = "returned"]
            /\ UNCHANGED drawVars
    /\ UNCHANGED subject

\* the two mulligan decisions: the first on the initial hand, the second on
\* the hand after the first mulligan; a ValueError of mulligan() leaves the
\* function
TrialMulligan ==
    /\ tool = "trials"
    /\ report.pc \in {"dealt", "mulligan"}
    /\ IF BadPower(PowerCount(current_hand))
       THEN /\ MulliganCall
            /\ report' =
                 IF draw_call'.outcome = "ValueError"
                 THEN [report EXCEPT !.pc = "raised"]
                 ELSE [report EXCEPT
                         !.mulligans_taken = report.mulligans_taken + 1,
                         !.pc = IF report.pc = "dealt" THEN "mulligan"
                                ELSE "final"]
       ELSE /\ report' = [report EXCEPT !.pc = "final"]
            /\ UNCHANGED drawVars
    /\ UNCHANGED subject

\* the rest of the body of the loop: the mulligan decision and the final hand
\* are counted
Tallied(results, final_power) ==
    [results EXCEPT
       !.pc = "next",
       !.done = results.done + 1,
       !.keep_rate = IF results.mulligans_taken = 0 THEN @ + 1 ELSE @,
       !.mulligan_once = IF results.mulligans_taken = 1 THEN @ + 1 ELSE @,
       !.mulligan_twice =
           IF results.mulligans_taken \notin {0, 1} THEN @ + 1 ELSE @,
       !.hands_with_2_4_power =
           IF 2 <= final_power /\ final_power <= 4 THEN @ + 1 ELSE @,
       !.hands_screw = IF final_power <= 1 THEN @ + 1 ELSE @,
       !.hands_flood = IF final_power >= 5 THEN @ + 1 ELSE @]

TrialTally ==
    /\ tool = "trials"
    /\ report.pc = "final"
    /\ report' = Tallied(report, PowerCount(current_hand))
    /\ UNCHANGED <<subject, drawVars>>

NextTrials ==
    \/ TrialDeal /\ UNCHANGED <<tool, goldVars, battleVars>>
    \/ TrialMulligan /\ UNCHANGED <<tool, goldVars, battleVars>>
    \/ TrialTally /\ UNCHANGED <<tool, goldVars, battleVars>>

\* one call of run_opening_hand_simulation
SpecTrials == InitTrials /\ [][NextTrials]_vars

\* ------------------------------------------------- snapshots of a game
\* the decks of the games a snapshot is taken of
SnapDecks ==
    { <<Slot(FireSigil, p, FALSE)>> \o pk :
        p \in 1..MaxCopies,
        pk \in {<<>>, <<Slot(Grenadin, 2, FALSE)>>} }

\* the keys of the dict returned by to_dict whose value is the object the
\* simulator's state holds, not a new one: 'influence' is
\* self.state.influence itself; the five card lists are new lists of new
\* dicts and the other values are immutable ints and bools
SharedKeys == {"influence"}

\* the dict returned by to_dict as its holder reads it now: an entry that is
\* an object of the simulator shows what play_card has since written into
\* that object
SnapshotNow ==
    [k \in DOMAIN report.data |->
       IF k \in SharedKeys THEN state[k] ELSE report.data[k]]

\* GoldfishSimulator.from_deck
InitSnap ==
    /\ tool = "snapshot"
    /\ NoDrawSim
    /\ NoBattle
    /\ subject = <<>>
    /\ report = [op |-> "none"]
    /\ \E deck \in SnapDecks :
         /\ original_deck = GoldFromDeckCards(deck)
         /\ \E shuffled \in Shuffle(GoldFromDeckCards(deck)) :
              state = SetupGame(shuffled)
    /\ gold_call = [op |-> "from_deck"]

\* snapshot = sim.to_dict(), with the state it was taken in kept beside it
SnapToDict ==
    /\ tool = "snapshot"
    /\ report.op = "none"
    /\ report' = [op |-> "to_dict", data |-> GoldToDict(GoldSim),
                  taken |-> state]
    /\ UNCHANGED <<subject, goldVars>>

\* sim.start_turn()
SnapStartTurn ==
    /\ tool = "snapshot"
    /\ state.turn < MaxTurn
    /\ \E r \in {StartTurn(state)} :
         /\ state' = r.state
         /\ gold_call' = [op |-> "start_turn", result |-> r.result]
    /\ UNCHANGED <<original_deck, anVars>>

\* sim.play_card(card)
SnapPlayCard ==
    /\ tool = "snapshot"
    /\ \E card \in GoldCards :
         \E r \in {PlayCard(state, card)} :
           /\ state' = r.state
           /\ gold_call' = [op |-> "play_card", card |-> card,
                            result |-> r.result]
    /\ UNCHANGED <<original_deck, anVars>>

\* sim.auto_play_turn()
SnapAutoPlayTurn ==
    /\ tool = "snapshot"
    /\ \E r \in {AutoPlayTurn(state)} :
         /\ state' = r.state
         /\ gold_call' = [op |-> "auto_play_turn", actions |-> r.actions]
    /\ UNCHANGED <<original_deck, anVars>>

\* sim = GoldfishSimulator.from_dict(snapshot): the game goes on from the
\* restored simulator, whose state.influence is data['influence'] itself
SnapRestore ==
    /\ tool = "snapshot"
    /\ report.op = "to_dict"
    /\ \E shuffled \in CtorShuffles(DictsToCards(SnapshotNow.original_deck)) :
         \E sim \in {GoldFromDict(SnapshotNow, shuffled)} :
           /\ original_deck' = sim.original_deck
           /\ state' = sim.state
    /\ gold_call' = [op |-> "from_dict"]
    /\ report' = [report EXCEPT !.op = "restored"]
    /\ UNCHANGED subject

NextSnap ==
    \/ SnapToDict /\ UNCHANGED <<tool, drawVars, battleVars>>
    \/ SnapStartTurn /\ UNCHANGED <<tool, drawVars, battleVars>>
    \/ SnapPlayCard /\ UNCHANGED <<tool, drawVars, battleVars>>
    \/ SnapAutoPlayTurn /\ UNCHANGED <<tool, drawVars, battleVars>>
    \/ SnapRestore /\ UNCHANGED <<tool, drawVars, battleVars>>

\* one game of which one snapshot is taken and restored at most once
SpecSnap == InitSnap /\ [][NextSnap]_vars

SpecGold == InitGold /\ [][NextGold]_vars

SpecDraw == InitDraw /\ [][NextDraw]_vars

\* either simulator, as one session drives it
Init == InitDraw \/ InitGold

Next == NextDraw \/ NextGold

Spec == Init /\ [][Next]_vars

\* ------------------------------------------------------------------ claims
\* C1: in every state of the draw simulator the hand and the remaining deck
\* together have as many cards as deck_cards and hold exactly its copies.
C1_HandPlusDeckIsDeck ==
    tool = "draw" =>
      /\ Len(current_hand) + Len(remaining_deck) = Len(deck_cards)
      /\ SameCopies(current_hand \o remaining_deck, deck_cards)

\* a card was drawn after two mulligans from a deck of both kinds of card
C1_Witness ==
    /\ draw_call.op = "draw_card"
    /\ draw_call.card # None
    /\ mulligan_count = 2
    /\ PowerCount(deck_cards) >= 2
    /\ PowerCount(deck_cards) < Len(deck_cards)
    /\ Len(deck_cards) > 7

\* C2: mulligan_count never exceeds 2, and a mulligan() call made when it is
\* already 2 returns the current hand with the flag False and changes
\* neither the hand, nor the remaining deck, nor the count; session round
\* trips may come between the calls.
C2_ThirdMulliganIsNoOp ==
    /\ [](mulligan_count <= 2)
    /\ [][(mulligan_count = 2 /\ draw_call'.op = "mulligan") =>
            /\ draw_call'.outcome = "return"
            /\ draw_call'.hand = current_hand
            /\ draw_call'.can_mulligan = FALSE
            /\ current_hand' = current_hand
            /\ remaining_deck' = remaining_deck
            /\ mulligan_count' = 2]_vars

\* a third mulligan was refused: the hand of 6 of the second mulligan had
\* grown to 7 by a draw and was returned as it was
C2_Witness ==
    /\ draw_call.op = "mulligan"
    /\ draw_call.outcome = "return"
    /\ draw_call.can_mulligan = FALSE
    /\ draw_call.hand = current_hand
    /\ mulligan_count = 2
    /\ Len(current_hand) = 7
    /\ PowerCount(deck_cards) >= 2

\* C3 (as claimed): after a first mulligan (mulligan_count 0 -> 1) the hand
\* holds between 2 and 4 power cards, for every main deck.
C3_FirstMulliganPower ==
    [][(mulligan_count = 0 /\ draw_call'.op = "mulligan") =>
          PowerCount(current_hand') \in 2..4]_vars

\* C4 (as claimed): after a second mulligan (mulligan_count 1 -> 2) the hand
\* has exactly 6 cards, between 2 and min(4, power cards of the deck) of them
\* power cards.
C4_SecondMulliganHand ==
    [][(mulligan_count = 1 /\ draw_call'.op = "mulligan") =>
          /\ Len(current_hand') = 6
          /\ PowerCount(current_hand') \in
               2..Min2(4, PowerCount(deck_cards))]_vars

\* C5 (as claimed): a mulligan() call made while mulligan_count < 2 completes
\* with a (hand, can_mulligan) result on every main deck.
C5_MulliganNeverFaults ==
    draw_call.op = "mulligan" => draw_call.outcome = "return"

\* C6: in every state of the draw simulator and of the goldfish simulator,
\* from_dict(to_dict(s)) is s again: the same ordered hand, deck/remaining
\* deck, battlefield, void and original deck and the same counters, whatever
\* game the constructor called by from_dict had set up.
C6_RoundTrip ==
    /\ tool = "draw" => DrawFromDict(DrawToDict(DrawSim)) = DrawSim
    /\ tool = "goldfish" =>
         \A shuffled \in CtorShuffles(original_deck) :
            GoldFromDict(GoldToDict(GoldSim), shuffled) = GoldSim

\* a goldfish game with cards in all four zones, a power card played this
\* turn and power spent
C6_Witness ==
    /\ tool = "goldfish"
    /\ state.deck # <<>>
    /\ state.hand # <<>>
    /\ state.battlefield # <<>>
    /\ state.void # <<>>
    /\ state.power_played_this_turn
    /\ state.power_available < state.power_max
    /\ state.turn = 1

\* C7: in every state of the goldfish simulator
\* 0 <= power_available <= power_max.
C7_PowerWithinMax ==
    tool = "goldfish" =>
      /\ 0 <= state.power_available
      /\ state.power_available <= state.power_max

\* a unit of cost 2 was paid for out of 2 power
C7_Witness ==
    /\ tool = "goldfish"
    /\ gold_call.op = "play_card"
    /\ gold_call.result.success
    /\ gold_call.card.cost = 2
    /\ state.power_available = 0
    /\ state.power_max = 2

\* C8: start_turn adds 1 to turn, clears power_played_this_turn, sets
\* power_available to power_max, moves the top card of the deck to the hand
\* when the new turn is above 1 and the deck is not empty and draws nothing
\* otherwise, and leaves battlefield, void, power_max and influence alone.
C8_StartTurnEffect ==
    [][gold_call'.op = "start_turn" =>
         /\ state'.turn = state.turn + 1
         /\ state'.power_played_this_turn = FALSE
         /\ state'.power_available = state.power_max
         /\ IF state.turn + 1 > 1 /\ state.deck # <<>>
            THEN /\ state'.hand = Append(state.hand, Head(state.deck))
                 /\ state'.deck = Tail(state.deck)
                 /\ gold_call'.result.drawn_card = Some(Head(state.deck))
            ELSE /\ state'.hand = state.hand
                 /\ state'.deck = state.deck
                 /\ gold_call'.result.drawn_card = None
         /\ state'.battlefield = state.battlefield
         /\ state'.void = state.void
         /\ state'.power_max = state.power_max
         /\ state'.influence = state.influence]_vars

\* turn 2 started with a draw, after a turn in which power was played
C8_Witness ==
    /\ tool = "goldfish"
    /\ gold_call.op = "start_turn"
    /\ gold_call.result.drawn_card # None
    /\ state.turn = 2
    /\ state.power_max = 1
    /\ state.power_available = 1

\* C9: in every state of the goldfish simulator the four zones together
\* have as many cards as original_deck and hold exactly its copies.
C9_CardsConserved ==
    tool = "goldfish" =>
      /\ Len(state.hand) + Len(state.deck) + Len(state.battlefield)
           + Len(state.void) = Len(original_deck)
      /\ SameCopies(state.hand \o state.deck \o state.battlefield
                      \o state.void, original_deck)

\* cards in all four zones, a second copy of a played card still in hand
C9_Witness ==
    /\ tool = "goldfish"
    /\ state.deck # <<>>
    /\ state.battlefield # <<>>
    /\ state.void # <<>>
    /\ \E i \in DOMAIN state.hand : state.hand[i] \in Range(state.void)

\* C10: play_card with a card that is not in hand, or that _can_play
\* rejects, returns a failure carrying an error reason and changes no
\* component of the state.
C10_FailedPlayChangesNothing ==
    [][(/\ gold_call'.op = "play_card"
        /\ \/ gold_call'.card \notin Range(state.hand)
           \/ ~CanPlay(state, gold_call'.card)) =>
         /\ gold_call'.result.success = FALSE
         /\ gold_call'.result.error \in
              {"Card not in hand", "Cannot play this card"}
         /\ state' = state
         /\ original_deck' = original_deck]_vars

\* a card of the hand was refused after cards had been played
C10_Witness ==
    /\ tool = "goldfish"
    /\ gold_call.op = "play_card"
    /\ gold_call.result.success = FALSE
    /\ gold_call.result.error = "Cannot play this card"
    /\ gold_call.card \in Range(state.hand)
    /\ state.cards_played_total > 0

\* the successful plays of the call that made the step
PlaysOfCall(call) ==
    IF call.op = "auto_play_turn" THEN call.actions
    ELSE IF call.op = "play_card" /\ call.result.success
    THEN <<call.result>>
    ELSE <<>>

\* the plays are followed from power_available power and the influence
\* totals influence: a power card is played only while none was played since
\* start_turn, any other card only when its cost is within the power left
\* and each faction has at least as many influence as the card has pips
RECURSIVE PlaysWithinRules(_, _, _, _)
PlaysWithinRules(power_available, influence, power_played, plays) ==
    IF plays = <<>> THEN TRUE
    ELSE LET card == Head(plays).card IN
         IF IsPowerType(card.card_type)
         THEN /\ ~power_played
              /\ PlaysWithinRules(
                    power_available + 1,
                    [f \in FACTIONS |->
                       influence[f] + Copies(card.influence, f)],
                    TRUE, Tail(plays))
         ELSE /\ card.cost <= power_available
              /\ \A f \in FACTIONS :
                    influence[f] >= Copies(card.influence, f)
              /\ PlaysWithinRules(power_available - card.cost, influence,
                                  power_played, Tail(plays))

\* C11: between two start_turn calls at most one power card is successfully
\* played (the flag a power play sets stays set until start_turn, and no
\* power play succeeds while it is set), and a card that is not a power card
\* is successfully played only when its cost is within power_available and
\* every faction it requires has at least that many influence.
C11_PlaysWithinRules ==
    [][gold_call'.op \in {"play_card", "auto_play_turn"} =>
         /\ PlaysWithinRules(state.power_available, state.influence,
                             state.power_played_this_turn,
                             PlaysOfCall(gold_call'))
         /\ state.power_played_this_turn => state'.power_played_this_turn
         /\ PowerCount(state'.void) > PowerCount(state.void) =>
               state'.power_played_this_turn]_vars

\* a spell of two pips was cast from 2 power and 2 influence, in a turn in
\* which a power card had been played
C11_Witness ==
    /\ tool = "goldfish"
    /\ gold_call.op = "play_card"
    /\ gold_call.result.success
    /\ gold_call.card.card_type = "Spell"
    /\ state.power_played_this_turn
    /\ state.power_max = 2
    /\ state.power_available = 1

\* the plays are followed from state st: kind is the stage reached (1 power,
\* 2 units, 3 other cards); every play is of the stage reached or a later
\* one, a power card is the first power card of the hand, a unit is the
\* first of the highest cost among the playable units, any other card is
\* played when no unit is playable and is the first of the highest cost
\* among the playable cards that are neither units nor power cards
RECURSIVE PlaysInOrder(_, _, _)
PlaysInOrder(st, stage, plays) ==
    IF plays = <<>> THEN TRUE
    ELSE
      LET card == Head(plays).card
          playable == GetPlayableCards(st)
          units == SelectSeq(playable, LAMBDA c : c.card_type = "Unit")
          others == SelectSeq(playable,
                      LAMBDA c : c.card_type \notin {"Unit", "Power", "Sigil"})
          top(cards) ==
            /\ \A i \in DOMAIN cards : cards[i].cost <= card.cost
            /\ card \in Range(cards)
      IN /\ IF IsPowerType(card.card_type)
            THEN /\ stage = 1
                 /\ ~st.power_played_this_turn
                 /\ card \in Range(st.hand)
            ELSE IF card.card_type = "Unit"
            THEN stage <= 2 /\ top(units)
            ELSE units = <<>> /\ top(others)
         /\ PlaysInOrder(PlayCard(st, card).state,
                         IF IsPowerType(card.card_type) THEN 2
                         ELSE IF card.card_type = "Unit" THEN 2 ELSE 3,
                         Tail(plays))

\* C12: auto_play_turn returns; it plays at most one power card, first, and
\* plays one when the hand has one and none was played this turn; then units,
\* each the highest-cost unit playable at that point; then the other cards,
\* each the highest-cost one playable at that point; and when it returns no
\* card of the hand is playable.
C12_AutoPlayOrder ==
    [][gold_call'.op = "auto_play_turn" =>
         /\ PlaysInOrder(state, 1, gold_call'.actions)
         /\ ((\E i \in DOMAIN state.hand : state.hand[i].is_power)
               /\ ~state.power_played_this_turn)
              => /\ gold_call'.actions # <<>>
                 /\ gold_call'.actions[1].action = "played_power"
         /\ GetPlayableCards(state') = <<>>]_vars

\* auto_play_turn played a power card, then the unit of cost 2 ahead of a
\* unit of cost 1 that stayed in hand
C12_Witness ==
    /\ tool = "goldfish"
    /\ gold_call.op = "auto_play_turn"
    /\ Len(gold_call.actions) = 2
    /\ gold_call.actions[1].action = "played_power"
    /\ gold_call.actions[2].card.cost = 2
    /\ \E i \in DOMAIN state.hand : state.hand[i].card_type = "Unit"
    /\ state.power_available = 0

\* a simulate_game call has created its players
InGame(g) == g.pc \notin {"idle", "returned"}

\* C13: a life total never grows and the life total of the active player
\* never changes; once a life total is 0 or below the turn counter stays as
\* it is and the game is over; and the game that combat ended is won by the
\* player whose turn it was.
C13_LethalDamageEndsGame ==
    /\ [][(InGame(game) /\ InGame(game')) =>
            /\ game'.player1.health <= game.player1.health
            /\ game'.player2.health <= game.player2.health
            /\ (IF game.current = 1 THEN game'.player1.health
                 ELSE game'.player2.health) = Current(game).health
            /\ (game'.player1.health <= 0 \/ game'.player2.health <= 0) =>
                  /\ game'.turn = game.turn
                  /\ game'.pc \in {"end", "done"}
                  /\ game'.current = game.current]_vars
    /\ []((InGame(game) /\ game.pc = "done"
            /\ Other(game).health <= 0) =>
             /\ Current(game).health > 0
             /\ game.result[1].winner =
                  IF game.current = 1 THEN "player1" ELSE "player2")

\* player 2 won on its own turn by bringing player 1 to 0 or below, before
\* the turn cap
C13_Witness ==
    /\ tool = "battle"
    /\ game.pc = "done"
    /\ game.current = 2
    /\ game.player1.health <= 0
    /\ game.result[1].winner = "player2"
    /\ game.turn < MAX_TURNS

\* C14 (as claimed): when the active player must draw and its deck is empty
\* the loop is left at once, and the game is lost by that player: the winner
\* is the other player, for every pair of decks.
C14_FailedDrawLoses ==
    /\ [][(battle_call'.op = "begin_turn" /\ battle_call'.draw = "empty") =>
            /\ game'.pc = "end"
            /\ game'.turn = game.turn + 1]_vars
    /\ [][(/\ battle_call.op = "begin_turn"
            /\ battle_call.draw = "empty"
            /\ battle_call'.op = "simulate_game") =>
             battle_call'.result.winner =
               IF game.current = 1 THEN "player2" ELSE "player1"]_vars

\* C15 (as claimed): a game that leaves the loop at the turn cap with both
\* life totals above 0 is won by the player with the higher life total and
\* is a draw when the life totals are equal, whatever the decks hold.
C15_TurnCapByLife ==
    [][(/\ battle_call.op = "begin_turn"
        /\ battle_call.draw = "cap"
        /\ battle_call'.op = "simulate_game"
        /\ game.player1.health > 0
        /\ game.player2.health > 0) =>
         /\ game.turn = MAX_TURNS
         /\ battle_call'.result.winner =
              IF game.player1.health > game.player2.health THEN "player1"
              ELSE IF game.player2.health > game.player1.health THEN "player2"
              ELSE "draw"]_vars

\* C16 (as claimed): the draw step is skipped on turn 1, the turn of the
\* player chosen to go first, and on no other turn; on every other turn the
\* active player draws the top card of its deck or, the deck being empty,
\* the loop is left.
C16_FirstPlayerSkipsDraw ==
    [][(battle_call'.op = "begin_turn" /\ battle_call'.draw # "cap") =>
         IF game'.turn = 1
         THEN battle_call'.draw = "skipped"
         ELSE IF Current(game).deck # <<>>
         THEN /\ battle_call'.draw = "drawn"
              /\ Current(game').hand =
                    Append(Current(game).hand, Head(Current(game).deck))
              /\ Current(game').deck = Tail(Current(game).deck)
         ELSE /\ battle_call'.draw = "empty"
              /\ game'.pc = "end"]_vars

\* C17: every simulate_game call returns, and the BattleResult it returns
\* has turns at most 30 and a winner among 'player1', 'player2', 'draw'.
C17_GameTerminates ==
    /\ (game.pc = "loop") ~> (game.pc = "done")
    /\ [](game.pc = "done" =>
            /\ game.result[1].turns <= 30
            /\ game.result[1].turns = game.turn
            /\ game.result[1].winner \in {"player1", "player2", "draw"})

\* a game that ran to the turn cap and returned, a unit having been played
\* and damage dealt on the way
C17_Witness ==
    /\ tool = "battle"
    /\ game.pc = "done"
    /\ game.result[1].turns = 30
    /\ game.result[1].winner = "player1"
    /\ game.player1.battlefield # <<>>
    /\ game.player2.health < 25
    /\ game.player2.health > 0

\* number of results whose winner is w
Won(results, w) ==
    Cardinality({i \in DOMAIN results : results[i].winner = w})

\* C18: while simulate_games runs, every result so far is counted in exactly
\* one of p1_wins, p2_wins and draws; the SimulationResult it returns for
\* n >= 1 has player1_wins + player2_wins + draws = n = games_played =
\* len(results).
C18_TalliesAddUp ==
    tool = "battles" =>
      /\ tally.p1_wins = Won(tally.results, "player1")
      /\ tally.p2_wins = Won(tally.results, "player2")
      /\ tally.draws = Won(tally.results, "draw")
      /\ tally.p1_wins + tally.p2_wins + tally.draws = Len(tally.results)
      /\ Len(tally.results) <= tally.num_games
      /\ game.pc = "returned" =>
           LET r == battle_call.result IN
             /\ tally.num_games >= 1
             /\ r.player1_wins + r.player2_wins + r.draws = tally.num_games
             /\ r.games_played = tally.num_games
             /\ Len(r.results) = tally.num_games
             /\ r.player1_wins = Won(r.results, "player1")
             /\ r.player2_wins = Won(r.results, "player2")
             /\ r.draws = Won(r.results, "draw")

\* simulate_games(2) returned a win of player 2 and a draw
C18_Witness ==
    /\ tool = "battles"
    /\ game.pc = "returned"
    /\ battle_call.result.games_played = 2
    /\ battle_call.result.player2_wins = 1
    /\ battle_call.result.draws = 1
    /\ battle_call.result.results[1].winner = "player2"

\* the units of a battlefield at the positions that are not in dead, in
\* battlefield order
Survivors(units, dead) ==
    LET F[k \in 0..Len(units)] ==
          IF k = 0 THEN <<>>
          ELSE IF k \in Range(dead) THEN F[k - 1]
          ELSE Append(F[k - 1], units[k])
    IN F[Len(units)]

\* the rounds of a combat are followed from the battlefields a and d (units
\* by position): the attacker of a round meets a defending unit exactly when
\* one is left, and then one of the highest current health; both lose the
\* other's attack at once and those at 0 or below die; an attacker that
\* meets nobody adds its attack to the damage.  The result is the five
\* values the combat must leave.
RECURSIVE CombatByRule(_, _, _, _, _, _)
CombatByRule(a, d, a_dead, d_dead, damage, rounds) ==
    IF rounds = <<>>
    THEN [ok |-> TRUE, a_battlefield |-> Survivors(a, a_dead),
          d_battlefield |-> Survivors(d, d_dead),
          a_void |-> [i \in DOMAIN a_dead |-> a[a_dead[i]]],
          d_void |-> [i \in DOMAIN d_dead |-> d[d_dead[i]]],
          damage |-> damage]
    ELSE
      LET atk == Head(rounds)[1]
          met == Head(rounds)[2]
          left == DOMAIN d \ Range(d_dead)
      IN
      IF left = {}
      THEN IF met # None THEN [ok |-> FALSE]
           ELSE CombatByRule(a, d, a_dead, d_dead, damage + a[atk].attack,
                             Tail(rounds))
      ELSE
        IF met = None THEN [ok |-> FALSE]
        ELSE
          LET blocker == met[1] IN
          IF ~(/\ blocker \in left
               /\ \A k \in left :
                     d[k].current_health <= d[blocker].current_health)
          THEN [ok |-> FALSE]
          ELSE
            LET a_health == a[atk].current_health - d[blocker].attack
                d_health == d[blocker].current_health - a[atk].attack
            IN CombatByRule(
                 [a EXCEPT ![atk].current_health = a_health],
                 [d EXCEPT ![blocker].current_health = d_health],
                 IF a_health <= 0 THEN Append(a_dead, atk) ELSE a_dead,
                 IF d_health <= 0 THEN Append(d_dead, blocker) ELSE d_dead,
                 damage, Tail(rounds))

\* the attackers of the rounds are the units of the battlefield that can
\* attack and are not tapped, each once, in descending order of attack
AttackersInOrder(battlefield, rounds) ==
    /\ {rounds[i][1] : i \in DOMAIN rounds} =
         {k \in DOMAIN battlefield :
            battlefield[k].can_attack /\ ~battlefield[k].is_tapped}
    /\ \A i, j \in DOMAIN rounds :
         i < j => /\ rounds[i][1] # rounds[j][1]
                  /\ battlefield[rounds[i][1]].attack
                       >= battlefield[rounds[j][1]].attack

\* C19: in every combat the attackers are the active player's units that can
\* attack and are not tapped, in descending order of attack; an attacker is
\* blocked exactly when the defender has a unit left, by a unit of the
\* highest current health; both lose the other's attack at the same time; a
\* unit at 0 or below moves from the battlefield to its owner's void; an
\* attacker that is not blocked adds its attack to the damage taken by the
\* defender's life total, a blocked one adds nothing.
C19_CombatByRule ==
    [][battle_call'.op = "combat" =>
         LET attacker == Current(game)
             defender == Other(game)
             attacker_after == IF game.current = 1 THEN game'.player1
                               ELSE game'.player2
             defender_after == IF game.current = 1 THEN game'.player2
                               ELSE game'.player1
             rule == CombatByRule(attacker.battlefield, defender.battlefield,
                                  <<>>, <<>>, 0, battle_call'.rounds)
         IN /\ AttackersInOrder(attacker.battlefield, battle_call'.rounds)
            /\ rule.ok
            /\ attacker_after.battlefield = rule.a_battlefield
            /\ defender_after.battlefield = rule.d_battlefield
            /\ attacker_after.void = attacker.void \o rule.a_void
            /\ defender_after.void = defender.void \o rule.d_void
            /\ battle_call'.damage = rule.damage
            /\ defender_after.health = defender.health - rule.damage
            /\ attacker_after.health = attacker.health
            /\ attacker_after.hand = attacker.hand
            /\ defender_after.hand = defender.hand]_vars

\* a unit of the player's battlefield is below its health
HasDamagedUnit(p) ==
    \E i \in DOMAIN p.battlefield :
       p.battlefield[i].current_health < p.battlefield[i].health

\* a unit of the player has died
HasLostUnit(p) == \E i \in DOMAIN p.void : p.void[i].card_type = "Unit"

\* a combat with blocked attackers and attackers that met nobody, in a game
\* in which both players have lost units and a unit survived a block
C19_Witness ==
    /\ tool = "battle"
    /\ battle_call.op = "combat"
    /\ battle_call.damage > 0
    /\ \E i \in DOMAIN battle_call.rounds : battle_call.rounds[i][2] # None
    /\ \E i \in DOMAIN battle_call.rounds : battle_call.rounds[i][2] = None
    /\ HasLostUnit(game.player1)
    /\ HasLostUnit(game.player2)
    /\ HasDamagedUnit(game.player1) \/ HasDamagedUnit(game.player2)

\* number of cards a player holds in its four zones
CardsOf(p) == Len(p.hand) + Len(p.deck) + Len(p.battlefield) + Len(p.void)

\* C20: from the creation of the players on (opening hand and mulligan
\* done), after every draw, play and combat, each player holds as many cards
\* in hand, deck, battlefield and void together as its main deck has, and
\* they are the copies of the main deck.
C20_BattleCardsConserved ==
    (tool \in {"battle", "battles"} /\ InGame(game)) =>
      /\ CardsOf(game.player1) = Len(battle_sim.deck1_cards)
      /\ CardsOf(game.player2) = Len(battle_sim.deck2_cards)
      /\ \A id \in 1..6 :
           /\ Len(SelectSeq(game.player1.hand \o game.player1.deck
                              \o game.player1.battlefield
                              \o game.player1.void,
                            LAMBDA c : c.id = id))
                = Len(SelectSeq(battle_sim.deck1_cards, LAMBDA c : c.id = id))
           /\ Len(SelectSeq(game.player2.hand \o game.player2.deck
                              \o game.player2.battlefield
                              \o game.player2.void,
                            LAMBDA c : c.id = id))
                = Len(SelectSeq(battle_sim.deck2_cards, LAMBDA c : c.id = id))

\* after a combat of the deck of sigils and units against a deck of units:
\* power cards in the void, units on the battlefield, units of both players
\* dead in combat, cards left in hand
C20_Witness ==
    /\ tool = "battle"
    /\ battle_call.op = "combat"
    /\ PowerCount(battle_sim.deck1_cards) = 3
    /\ PowerCount(game.player1.void) >= 2
    /\ game.player1.hand # <<>>
    /\ game.player1.battlefield # <<>>
    /\ HasLostUnit(game.player1)
    /\ HasLostUnit(game.player2)

\* the cards hold no unit and no power card
NoUnitsNoPower(cards) ==
    \A i \in DOMAIN cards : cards[i].card_type # "Unit" /\ ~cards[i].is_power

\* C21 (as claimed): in a game between two decks without units and without
\* power cards every combat is resolved on empty battlefields, dealing no
\* damage, and the game ends by the turn cap with the player of the higher
\* life total as the winner, or 'draw' when the life totals are equal.
C21_SpellDecksEndByLife ==
    /\ [][(/\ tool = "battle"
           /\ NoUnitsNoPower(battle_sim.deck1_cards)
           /\ NoUnitsNoPower(battle_sim.deck2_cards)
           /\ battle_call'.op = "combat") =>
            /\ game.player1.battlefield = <<>>
            /\ game.player2.battlefield = <<>>
            /\ battle_call'.damage = 0
            /\ battle_call'.rounds = <<>>]_vars
    /\ []((/\ tool = "battle"
           /\ NoUnitsNoPower(battle_sim.deck1_cards)
           /\ NoUnitsNoPower(battle_sim.deck2_cards)
           /\ game.pc = "done") =>
            /\ game.result[1].turns <= MAX_TURNS
            /\ game.result[1].winner =
                 IF game.player1.health > game.player2.health THEN "player1"
                 ELSE IF game.player2.health > game.player1.health
                 THEN "player2"
                 ELSE "draw")

\* the quantities of the slots times the pips of a faction they provide
RECURSIVE SumPips(_, _)
SumPips(power_sources, faction) ==
    IF power_sources = <<>> THEN 0
    ELSE Head(power_sources).quantity
           * Get(Head(power_sources).influence_provided, faction)
         + SumPips(Tail(power_sources), faction)

\* C22 (as claimed): market slots contribute nothing: the card lists of the
\* three simulators, the card lists of the deck analyzer and the power
\* analyzer's total_cards, power sources, power counts and influence sources
\* are those of the deck without its market slots.
C22_MarketExcluded ==
    /\ report.op = "from_deck" =>
          /\ report.draw = DrawFromDeckCards(MainSlots(subject))
          /\ report.goldfish = GoldFromDeckCards(MainSlots(subject))
          /\ report.battle = DeckToCards(MainSlots(subject))
    /\ report.op = "deck_analyzer" =>
          report.cards = LoadCards(MainSlots(subject))
    /\ report.op = "power_analyzer" =>
          /\ report.result.total_cards = SumQuantity(MainSlots(subject))
          /\ report.result =
                PowerMethods(AnalyzePowerSources(MainSlots(subject)))

\* C23 (as claimed): get_influence_sources() gives for each faction the sum,
\* over the power sources, of quantity times the pips of that faction the
\* card provides.
C23_InfluenceSourcesCountPips ==
    report.op = "power_analyzer" =>
       \A faction \in FACTIONS :
          report.result.influence_sources[faction]
            = SumPips(report.result.power_sources, faction)

\* C24 (as claimed): the three counts add up to get_total_power_count(), and
\* get_power_sources_by_category() puts the always-depleted sources under
\* 'depleted', the other conditionally depleted sources under 'conditional'
\* and the rest under 'undepleted'.
C24_DepletionClassesPartition ==
    report.op = "power_analyzer" =>
       /\ report.result.undepleted_count + report.result.depleted_count
            + report.result.conditional_count
            = report.result.total_power_count
       /\ report.result.categories["depleted"] =
             SelectSeq(report.result.power_sources,
                       LAMBDA ps : ps.is_depleted)
       /\ report.result.categories["conditional"] =
             SelectSeq(report.result.power_sources,
                       LAMBDA ps : ps.is_conditional /\ ~ps.is_depleted)
       /\ report.result.categories["undepleted"] =
             SelectSeq(report.result.power_sources,
                       LAMBDA ps : ~ps.is_conditional /\ ~ps.is_depleted)

\* the slots of the main deck that are not power cards
SynergySlots(slots) ==
    SelectSeq(MainSlots(slots),
              LAMBDA deck_card : ~IsPowerType(deck_card.card.card_type))

\* the unit-type tags of a card row, whichever way they are stored
TagsOf(card) ==
    IF "list" \in DOMAIN card.unit_types THEN card.unit_types.list
    ELSE UnitTypeTags(card.unit_types.str)

\* C25 (as claimed): analyze_synergies() returns, and the count of a keyword
\* is the sum of the quantities of the slots whose text holds the keyword as
\* a whole word in any case; the count of a unit type is the sum of the
\* quantities of the slots tagged with it.
C25_SynergyCountsQuantityOnce ==
    report.op = "deck_analyzer" =>
       /\ "fault" \notin DOMAIN report.synergies
       /\ \A keyword \in Range(KEYWORDS) :
             Entry(report.synergies.keywords, keyword).count =
                SumQuantity(SelectSeq(SynergySlots(subject),
                   LAMBDA deck_card :
                      keyword \in Range(KeywordsIn(
                                          ToLower(deck_card.card.card_text)))))
       /\ \A tag \in {"Owl", "Bird", "Dragon"} :
             Entry(report.synergies.unit_types, tag).count =
                SumQuantity(SelectSeq(SynergySlots(subject),
                   LAMBDA deck_card : tag \in Range(TagsOf(deck_card.card))))

\* C26: for 0 <= K <= N and 0 <= n <= N the numerators of
\* hypergeometric_probability(N, K, n, k) for k = 0..n add up to
\* binomial(N, n), which is their common denominator, so the values add up
\* to 1; the function returns 0 whenever k > K, k > n or n - k > N - K; and
\* probability_at_least returns 1 for min_successes <= 0.
C26_HypergeometricSumsToOne ==
    tool = "odds" =>
       /\ Binomial(subject.population_size, subject.draws) > 0
       /\ SumFrom(subject.population_size, subject.success_in_population,
                  subject.draws, 0, subject.draws)
            = Binomial(subject.population_size, subject.draws)
       /\ \A k \in 0..subject.draws :
             HypergeometricProbability(
               subject.population_size, subject.success_in_population,
               subject.draws, k)[2]
               \in {1, Binomial(subject.population_size, subject.draws)}
       /\ (/\ report.op = "hypergeometric_probability"
           /\ \/ report.observed_successes > subject.success_in_population
              \/ report.observed_successes > subject.draws
              \/ subject.draws - report.observed_successes
                   > subject.population_size - subject.success_in_population)
            => report.result[1] = 0
       /\ (report.op = "probability_at_least" /\ report.min_successes <= 0)
            => report.result = One

\* 2 successes among 3 draws from a population of 6 that holds 3: the
\* probability is 9/20
C26_Witness ==
    /\ tool = "odds"
    /\ subject = [population_size |-> 6, success_in_population |-> 3,
                  draws |-> 3]
    /\ report.op = "hypergeometric_probability"
    /\ report.observed_successes = 2
    /\ report.result = <<9, 20>>

\* C27 (as claimed): every trial of run_opening_hand_simulation takes its
\* first mulligan exactly when the initial hand has fewer than 2 or more than
\* 4 power cards and its second exactly when the hand after the first
\* mulligan has, and is then counted; when the function returns, the three
\* mulligan counters add up to num_simulations and so do the three counters
\* of the final power count.
C27_TrialsTakeAndCountMulligans ==
    /\ [][(tool = "trials" /\ report.pc \in {"dealt", "mulligan"}) =>
            IF BadPower(PowerCount(current_hand))
            THEN /\ report'.mulligans_taken = report.mulligans_taken + 1
                 /\ report'.pc =
                      IF report.pc = "dealt" THEN "mulligan" ELSE "final"
            ELSE /\ report'.mulligans_taken = report.mulligans_taken
                 /\ report'.pc = "final"]_vars
    /\ []((tool = "trials" /\ report.pc = "returned") =>
            /\ report.done = subject.num_simulations
            /\ report.keep_rate + report.mulligan_once
                 + report.mulligan_twice = subject.num_simulations
            /\ report.hands_with_2_4_power + report.hands_screw
                 + report.hands_flood = subject.num_simulations)

\* the units a player has put onto the battlefield: those still there and
\* those that died and went to the void
UnitsPut(player) ==
    Len(player.battlefield)
    + Cardinality({i \in DOMAIN player.void :
                     player.void[i].card_type = "Unit"})

\* C28: in the BattleResult of every game, whether the two decks differ or
\* are the same deck under the same name, the damage dealt by a player is 25
\* minus the other player's life total before clamping, and the units played
\* by a player are the units that player put onto the battlefield.
C28_BookkeepingPerPlayer ==
    (tool = "battle" /\ game.pc = "done") =>
       /\ game.result[1].player1_damage_dealt = 25 - game.player2.health
       /\ game.result[1].player2_damage_dealt = 25 - game.player1.health
       /\ game.result[1].player1_units_played = UnitsPut(game.player1)
       /\ game.result[1].player2_units_played = UnitsPut(game.player2)

\* the pips of one faction on the power cards of a list of cards
RECURSIVE PipsOf(_, _)
PipsOf(cards, faction) ==
    IF cards = <<>> THEN 0
    ELSE (IF Head(cards).is_power
          THEN Cardinality({k \in DOMAIN Head(cards).influence :
                              Head(cards).influence[k] = faction})
          ELSE 0)
         + PipsOf(Tail(cards), faction)

\* the sum of attack over a list of cards
RECURSIVE SumAttack(_)
SumAttack(cards) ==
    IF cards = <<>> THEN 0
    ELSE Head(cards).attack + SumAttack(Tail(cards))

\* C30: in every state reachable from a new game by start_turn, play_card
\* and auto_play_turn calls, play_card before the first start_turn included,
\* power_max is at most the turn and equals the number of power cards in
\* the void, each faction's influence is the pips of that faction on the
\* power cards in the void, and total_damage_potential is the sum of attack
\* over the battlefield.
C30_GoldfishStateInvariant ==
    tool = "goldfish" =>
       /\ state.power_max <= state.turn
       /\ state.power_max = PowerCount(state.void)
       /\ \A f \in FACTIONS : state.influence[f] = PipsOf(state.void, f)
       /\ state.total_damage_potential = SumAttack(state.battlefield)

\* C29: a snapshot returned by to_dict reads the same whatever start_turn,
\* play_card and auto_play_turn calls are made on the simulator afterwards,
\* its influence entry included, and restoring it gives the state it was
\* taken in.
C29_SnapshotIndependent ==
    (tool = "snapshot" /\ report.op \in {"to_dict", "restored"}) =>
       /\ SnapshotNow = report.data
       /\ \A shuffled \in CtorShuffles(original_deck) :
            GoldFromDict(SnapshotNow, shuffled).state = report.taken
====
